---- MODULE Spec2Model ----
(***************************************************************************)
(* Capture orchestrator of iqoo-deubg (capture.js -> src/capture/index.js  *)
(* -> src/capture/runner.js -> src/capture/report-runner.js).              *)
(*                                                                         *)
(* One Node.js process: every handler below runs to its next `await`       *)
(* without interleaving, so each action is one such run-to-completion      *)
(* segment.  Wall-clock time is abstracted: a `sleep(ms)` that takes part  *)
(* in a Promise.race is an action that may fire at any moment after it     *)
(* was armed; `sleepMs` records the duration of the timer that is armed.   *)
(***************************************************************************)
EXTENDS Integers, Sequences, FiniteSets, TLC

(* ------------------------------ bounds --------------------------------- *)
MaxTicks == 2        \* scheduler ticks (calls of scheduleTask) per run
MaxAdds == 3         \* calls of addEvent per report run
MaxTs == 3           \* event timestamps range over 0..MaxTs
MaxSnaps == 2        \* snapshots appended to one snapshot file
MaxLines == 2        \* lines of one dumpsys payload
MaxWindows == 2      \* valid stream windows of one detection
MaxSec == 3          \* window and capture times range over 0..MaxSec seconds
MaxSamples == 4      \* ping samples of one ping log
MaxLogLines == 2     \* lines of one logcat file
MaxMinute == 2       \* minutes of the day range over 0..MaxMinute
MaxRuns == 2         \* runs of the report phase on one capture directory
MaxStreamLines == 4  \* streaming-client lines of one logcat file
MaxPingLines == 3    \* lines of one ping log
MaxSessionStep == 4  \* session times range over 0..MaxSessionStep steps
MaxPrimaryRows == 2  \* primary evidence rows of one cause
MaxScan == 3         \* snapshots of one dumpsys log
MaxFocusLines == 2   \* matched app lines of one logcat file
MaxChunk == 2        \* characters of one chunk of a child's output
MaxOutput == 4       \* characters of a child's whole output

(* ------------------------------ inputs --------------------------------- *)
CaptureYear == 2024  \* the calendar year in which the capture was taken

(* ------------------------ program constants ---------------------------- *)
Concurrency == 1          \* new PQueue({ concurrency: 1 })
DrainWaitMs == 25000      \* sleep(25000) raced against queue.onIdle()
PoliteWaitMs == 3500      \* sleep(3500) after proc.kill('SIGINT')
KillWaitMs == 1500        \* sleep(1500) after taskkill / SIGKILL
MERGE_GAP_MS == 10000            \* const MERGE_GAP_MS
MIN_VALID_DURATION_MS == 20000   \* const MIN_VALID_DURATION_MS
MIN_VALID_ACTIVITY_COUNT == 6    \* const MIN_VALID_ACTIVITY_COUNT
HOST_SIDE_MAX_LATENCY_MS == 60000  \* const HOST_SIDE_MAX_LATENCY_MS
MinMatchWindowMs == 1000         \* Math.max(1000, ...) of hostSideMatchWindowMs
ExitPollMs == 800         \* sleep(800) raced against exitPromise

TASKS == <<"wifi", "connectivity", "deviceidle", "power", "alarm", "jobscheduler">>
TaskNames == {TASKS[i] : i \in 1..Len(TASKS)}

ChildOrder == <<"logcat", "ping", "hostSide">>
Children == {ChildOrder[i] : i \in 1..Len(ChildOrder)}

SignalReasons == {"SIGINT", "SIGTERM", "SIGBREAK"}
FaultReasons == {"uncaughtException", "unhandledRejection"}
NoCode == -1              \* JavaScript null for an exit code
ManifestWrites == 3       \* start, stop, after the report

Range(s) == {s[i] : i \in 1..Len(s)}

VARIABLES
  pc,            \* position of the main flow / of stop()
  win32,         \* process.platform === 'win32'
  hostPingOn,    \* hostPing.enabled
  hostSideOn,    \* hostSidePing.enabled
  child,         \* per child: "none" | "running" | "exited"
  sent,          \* per child: sequence of kill requests issued to it
  termIdx,       \* index in ChildOrder of the child stop() is handling
  termPc,        \* position inside terminateSubprocess / its follow-up
  termDone,      \* per child: terminateSubprocess has returned for it
  remoteStops,   \* calls of the remote stop script
  stopping,      \* state.stopping
  timer,         \* per task: "timeout" | "interval" | "cleared"
  autoStop,      \* state.autoStopHandle: "armed" | "fired" | "cleared"
  pending,       \* queue.pending
  queued,        \* queue contents (queue.size = Len(queued))
  runningTask,   \* tasks whose dumpsys invocation is executing
  stats,         \* meta.stats
  log,           \* per task: snapshot frames appended to its stream
  meta,          \* manifest object in memory
  metaFile,      \* capture_meta.json on disk
  streamsClosed, \* closeStreams() has resolved
  exitCodeArg,   \* exitCode parameter of the stop() call that passed the guard
  finalCode,     \* code handed to process.exit
  sleepMs,       \* duration of the sleep() armed by stop(), 0 when none
  drainElapsed,  \* the 25 s drain timer has fired
  stopRuns,      \* history: stop() calls that passed the stopping guard
  reportRuns,    \* history: calls of runParseReport
  firstReason,   \* history: reason of the first shutdown trigger
  faultSeen,     \* history: an uncaught fault was delivered to a handler
  startupOk,     \* history: startup reached the running state
  probe          \* history: outcome of verifyHostSidePingReady

(* Report phase (parse_report.js): state of the analysis the report child *)
(* runs over a capture directory.  The capture process never touches it.  *)
VARIABLES
  eventsByType,  \* event store: per type, the accepted timestamps
  events,        \* event store: the accepted events <<type, ts>>
  lastAdd,       \* history: the last call of addEvent and what it returned
  storePc        \* "adding" while the parsers feed the store | "sorted"

VARIABLES
  snapshots,     \* history: the snapshots handed to appendSnapshot
  snapFile       \* one task's snapshot file: its lines in order

VARIABLES
  validWindows,     \* streamDetection.validWindows
  winOpts,          \* buffers and capture range given to buildEffectiveWindows
  effectiveWindows, \* streamDetection.effectiveWindows
  winPc             \* "detected" | "built"

VARIABLES
  samples,          \* result.samples of parsePingHostLog
  pingResult,       \* threshold, bursts and jitter events of the result
  pingPc            \* "parsing" | "analysed"

VARIABLES
  degraded,         \* the analysis runs in degraded mode
  causeInputs,      \* per cause: overlap, leadLag, intensity
  referenceTs,      \* referenceTs: <<>> for null, else <<ms>>
  evidenceRows,     \* per cause: the evidence rows drawn from the samples
  ranking,          \* causeRanking
  scorePc           \* "measured" | "ranked"

VARIABLES
  logcat,           \* lines of logcat_all.log in the capture directory
  captureMeta,      \* capture_meta.json in the capture directory
  now,              \* new Date() on the host: calendar year and a tick
  outputs           \* what each run of the report phase wrote

VARIABLES
  current,          \* the detector's current window: no or one window
  parsedWindows,    \* windows closed so far
  linesRead,        \* stream lines processed
  lastLine,         \* the line processed last
  detection,        \* `out` of detectStreamingPhases
  resolved,         \* result of the last resolveStreamPhaseEx call
  detPc             \* "reading" | "detected" | "effective"

VARIABLES
  pingIntervalMs,      \* the intervalSec option, in ms
  captureStartTs,      \* the captureStartTs option
  hostSideSentRecords, \* the SENT records read so far
  hostSideSentBySeq,   \* seq -> index of its latest SENT record, 0 for none
  hasHostSideSamples,  \* a host-side line was read
  derivedSeq,          \* the running seq of device lines without one
  parsedSamples,       \* result.samples of the parse loop
  skippedNoTsCount,    \* result.skippedNoTsCount
  lastPing,            \* the line read last and the SENT it was paired with
  parsePc              \* "reading" | "done"

VARIABLES
  scanService,   \* the service whose snapshot file is read
  scanIdx,       \* snapshots of the file the loop has been through
  scanPrev,      \* `prev`: <<>> for null, else the snapshot whose state it is
  lastOk,        \* history: the latest snapshot of status OK
  lastUsable,    \* history: the latest OK snapshot with a date and a state
  lastScan       \* history: the last iteration and its addEvent calls

VARIABLES
  noisePolicy,      \* the noisePolicy option of parseAppFocusLog
  keptLineCount,    \* result.keptLineCount
  droppedByReason,  \* result.droppedByReason
  lastFocus         \* history: the last line, its phase and what became of it

VARIABLES
  teeOutput,     \* history: what the child has written to stdout so far
  stdoutBuffer,  \* stdoutBuffer of bindProcessOutputWithPrefix
  teeWritten,    \* the lines written to the log stream
  teePc          \* "open" | "ended": stdout has emitted 'end'

VARIABLES
  diskExists,    \* capture_meta.json exists
  diskText,      \* its content: the tokens of a JSON text
  writeRest,     \* what writeFileSync has still to write
  writesDone,    \* manifest writes completed: 0..3
  diskMeta,      \* the object of the current or last write
  interrupted,   \* the process was killed
  seenText       \* what the last reader found: <<>> or <<text>>

storeVars == <<eventsByType, events, lastAdd, storePc>>
snapVars == <<snapshots, snapFile>>
winVars == <<validWindows, winOpts, effectiveWindows, winPc>>
pingVars == <<samples, pingResult, pingPc>>
scoreVars == <<degraded, causeInputs, referenceTs, evidenceRows, ranking,
              scorePc>>
runVars == <<logcat, captureMeta, now, outputs>>
detVars == <<current, parsedWindows, linesRead, lastLine, detection, resolved, detPc>>
parseVars == <<pingIntervalMs, captureStartTs, hostSideSentRecords, hostSideSentBySeq, hasHostSideSamples, derivedSeq, parsedSamples, skippedNoTsCount, lastPing, parsePc>>
scanVars == <<scanService, scanIdx, scanPrev, lastOk, lastUsable, lastScan>>
focusVars == <<noisePolicy, keptLineCount, droppedByReason, lastFocus>>
teeVars == <<teeOutput, stdoutBuffer, teeWritten, teePc>>
diskVars == <<diskExists, diskText, writeRest, writesDone, diskMeta, interrupted, seenText>>
reportVars == <<storeVars, snapVars, winVars, pingVars, scoreVars, runVars, detVars, parseVars, scanVars, focusVars, teeVars, diskVars>>

captureVars == <<pc, win32, hostPingOn, hostSideOn, child, sent, termIdx, termPc,
          termDone, remoteStops, stopping, timer, autoStop, pending, queued,
          runningTask, stats, log, meta, metaFile, streamsClosed,
          exitCodeArg, finalCode, sleepMs, drainElapsed, stopRuns,
          reportRuns, firstReason, faultSeen, startupOk, probe>>

vars == <<captureVars, reportVars>>

\* What the steps of one part of the report phase leave alone.
storeFrame == <<captureVars, snapVars, winVars, pingVars, scoreVars, runVars, detVars, parseVars, scanVars, focusVars, teeVars, diskVars>>
snapFrame == <<captureVars, storeVars, winVars, pingVars, scoreVars, runVars, detVars, parseVars, scanVars, focusVars, teeVars, diskVars>>
winFrame == <<captureVars, storeVars, snapVars, pingVars, scoreVars, runVars, detVars, parseVars, scanVars, focusVars, teeVars, diskVars>>
pingFrame == <<captureVars, storeVars, snapVars, winVars, scoreVars, runVars, detVars, parseVars, scanVars, focusVars, teeVars, diskVars>>
scoreFrame == <<captureVars, storeVars, snapVars, winVars, pingVars, runVars, detVars, parseVars, scanVars, focusVars, teeVars, diskVars>>
runFrame == <<captureVars, storeVars, snapVars, winVars, pingVars, scoreVars, detVars, parseVars, scanVars, focusVars, teeVars, diskVars>>
detFrame == <<captureVars, storeVars, snapVars, winVars, pingVars, scoreVars, runVars, parseVars, scanVars, focusVars, teeVars, diskVars>>
parseFrame == <<captureVars, storeVars, snapVars, winVars, pingVars, scoreVars, runVars, detVars, scanVars, focusVars, teeVars, diskVars>>
scanFrame == <<captureVars, storeVars, snapVars, winVars, pingVars, scoreVars, runVars, detVars, parseVars, focusVars, teeVars, diskVars>>
focusFrame == <<captureVars, storeVars, snapVars, winVars, pingVars, scoreVars, runVars, detVars, parseVars, scanVars, teeVars, diskVars>>
teeFrame == <<captureVars, storeVars, snapVars, winVars, pingVars, scoreVars, runVars, detVars, parseVars, scanVars, focusVars, diskVars>>
diskFrame == <<captureVars, storeVars, snapVars, winVars, pingVars, scoreVars, runVars, detVars, parseVars, scanVars, focusVars, teeVars>>

startupVars == <<child, sent, termIdx, termPc, termDone, remoteStops,
                 stopping, timer, autoStop, pending, queued, runningTask,
                 stats, log, meta, metaFile, streamsClosed, exitCodeArg,
                 sleepMs, drainElapsed, stopRuns, reportRuns, firstReason, faultSeen, startupOk, reportVars>>

(* --------------------------- initial state ----------------------------- *)
NewStat == [runs |-> 0, ok |-> 0, skipped |-> 0, timeout |-> 0, error |-> 0]

createCaptureMeta ==
  [stopReason |-> "null", stoppedAtIso |-> FALSE, endedAtIso |-> FALSE,
   durationSec |-> FALSE, parseExitCode |-> NoCode]

NoFile == [createCaptureMeta EXCEPT !.stopReason = "absent"]

\* Event types of the store (two of the program's types) and the value
\* `false` of a call that has not happened.
EventTypes == {"DOZE_ENTER", "ROAM"}
NoAdd == [n |-> 0, type |-> "none", ts |-> 0, tol |-> 0, ret |-> FALSE]

\* createEventStore(): no event, no per-type list.
createEventStore ==
  /\ eventsByType = [ty \in EventTypes |-> <<>>]
  /\ events = <<>>
  /\ lastAdd = NoAdd
  /\ storePc = "adding"

\* A snapshot file that has just been created.
EmptySnapshotFile ==
  /\ snapshots = <<>>
  /\ snapFile = <<>>

\* No stream window detected, default buffers, no capture range yet.
NoWindows ==
  /\ validWindows = <<>>
  /\ winOpts = [preBufferSec |-> 5, postBufferSec |-> 10,
                clockSkewToleranceSec |-> 2, minTs |-> 0, maxTs |-> 0]
  /\ effectiveWindows = <<>>
  /\ winPc = "detected"

\* `result` of parsePingHostLog before the first line is read.
NoLatency == -1           \* latencyMs: null
NoThreshold == -1         \* highLatencyThresholdMs: null
EmptyPingResult ==
  /\ samples = <<>>
  /\ pingResult = [highLatencyThresholdMs |-> NoThreshold,
                   highLatencyEvents |-> <<>>, highLatencyBursts |-> <<>>,
                   jitterEvents |-> <<>>]
  /\ pingPc = "parsing"

\* The causes ranked by buildCauseRanking, in the order it pushes them.
Causes == <<"network_path_jitter", "rtt_variance_burst",
            "decode_render_overload", "system_transition_interference">>
CauseNames == {Causes[i] : i \in 1..Len(Causes)}

\* Scores are fixed-point numbers: One stands for 1.0.
One == 100000
NoSignal == [overlap |-> 0, leadLag |-> 0, intensity |-> 0]

\* No sample near a jitter point and no summary value: the primary rows,
\* the fallback rows drawn from samples, and whether the summary row
\* (`Number.isFinite(p95) && referenceTs`) has a value.
NoEvidenceRows == [primary |-> <<>>, fallback |-> <<>>, summary |-> FALSE]

\* Nothing measured, nothing ranked.
NoRanking ==
  /\ degraded = FALSE
  /\ causeInputs = [c \in CauseNames |-> NoSignal]
  /\ referenceTs = <<>>
  /\ evidenceRows = [c \in CauseNames |-> NoEvidenceRows]
  /\ ranking = <<>>
  /\ scorePc = "measured"

\* capture_meta.json is absent (readJsonIfExists returns null).
NoMeta == [present |-> FALSE]

\* No capture directory has been analysed.
NoReportOutput ==
  /\ logcat = <<>>
  /\ captureMeta = NoMeta
  /\ now = [year |-> CaptureYear, tick |-> 0]
  /\ outputs = <<>>

\* A logcat line of the streaming client: its time and the marker classes
\* its payload matches.
NoLine == [ts |-> 0, strongStart |-> FALSE, midStart |-> FALSE,
           weakStart |-> FALSE, endMarker |-> FALSE,
           isStreamActivity |-> FALSE]

\* `out` of detectStreamingPhases as constructed.
EmptyDetection == [mode |-> "auto", windows |-> <<>>, validWindows |-> <<>>,
                   detected |-> FALSE, degraded |-> FALSE, reason |-> "",
                   effectiveWindows |-> <<>>]

NoPhase == [ts |-> 0, phase |-> "", inSession |-> FALSE]

\* detectStreamingPhases before the first line: current = null.
NoDetection ==
  /\ current = <<>>
  /\ parsedWindows = <<>>
  /\ linesRead = 0
  /\ lastLine = NoLine
  /\ detection = EmptyDetection
  /\ resolved = NoPhase
  /\ detPc = "reading"

NoMs == -1                \* elapsedMs, epochMs, ts: null
NoSeq == 0                \* seq: null

\* The sequence numbers of the lines of a ping log.
Seqs == 1..2

NoPingLine == [kind |-> "", seq |-> NoSeq, elapsedMs |-> NoMs,
               epochMs |-> NoMs, bracketMs |-> NoMs, latencyMs |-> NoLatency]

\* parsePingHostLog before the first line is read.
NoPingParse ==
  /\ pingIntervalMs = 200
  /\ captureStartTs = NoMs
  /\ hostSideSentRecords = <<>>
  /\ hostSideSentBySeq = [s \in Seqs |-> 0]
  /\ hasHostSideSamples = FALSE
  /\ derivedSeq = 0
  /\ parsedSamples = <<>>
  /\ skippedNoTsCount = 0
  /\ lastPing = [line |-> NoPingLine, sent |-> 0, recorded |-> FALSE]
  /\ parsePc = "reading"

\* add*Transitions before the first snapshot of the file: prev = null.
NoScan ==
  /\ scanService = "alarm"
  /\ scanIdx = 0
  /\ scanPrev = <<>>
  /\ lastOk = <<>>
  /\ lastUsable = <<>>
  /\ lastScan = [snap |-> <<>>, prev |-> <<>>, ok |-> <<>>,
                 usable |-> <<>>, events |-> <<>>]

\* An app line: its time and what its message matches.
NoFocusLine == [ts |-> 0, pollNoise |-> FALSE, appNoise |-> FALSE,
                highValue |-> FALSE]

\* `result` of parseAppFocusLog before the first line is read.
NoFocus ==
  /\ noisePolicy = "balanced"
  /\ keptLineCount = 0
  /\ droppedByReason = [preconnect_poll_noise |-> 0, app_known_noise |-> 0,
                        non_high_value |-> 0]
  /\ lastFocus = [line |-> NoFocusLine, phase |-> "", outcome |-> ""]

\* bindProcessOutputWithPrefix has bound its listeners: nothing read yet.
NoTee ==
  /\ teeOutput = <<>>
  /\ stdoutBuffer = <<>>
  /\ teeWritten = <<>>
  /\ teePc = "open"

\* Before runCaptureFlow: no manifest in the output directory.
NoManifest ==
  /\ diskExists = FALSE
  /\ diskText = <<>>
  /\ writeRest = <<>>
  /\ writesDone = 0
  /\ diskMeta = createCaptureMeta
  /\ interrupted = FALSE
  /\ seenText = <<>>

\* The report phase has not run.
ReportIdle ==
  /\ createEventStore
  /\ EmptySnapshotFile
  /\ NoWindows
  /\ EmptyPingResult
  /\ NoRanking
  /\ NoReportOutput
  /\ NoDetection
  /\ NoPingParse
  /\ NoScan
  /\ NoFocus
  /\ NoTee
  /\ NoManifest

CaptureInit ==
  /\ pc = "args"
  /\ win32 \in BOOLEAN
  /\ hostPingOn = FALSE
  /\ hostSideOn = FALSE
  /\ child = [c \in Children |-> "none"]
  /\ sent = [c \in Children |-> <<>>]
  /\ termIdx = 0
  /\ termPc = "idle"
  /\ termDone = [c \in Children |-> FALSE]
  /\ remoteStops = 0
  /\ stopping = FALSE
  /\ timer = [t \in TaskNames |-> "cleared"]
  /\ autoStop = "cleared"
  /\ pending = 0
  /\ queued = <<>>
  /\ runningTask = {}
  /\ stats = [t \in TaskNames |-> NewStat]
  /\ log = [t \in TaskNames |-> <<>>]
  /\ meta = createCaptureMeta
  /\ metaFile = NoFile
  /\ streamsClosed = FALSE
  /\ exitCodeArg = 0
  /\ finalCode = NoCode
  /\ sleepMs = 0
  /\ drainElapsed = FALSE
  /\ stopRuns = 0
  /\ reportRuns = 0
  /\ firstReason = "null"
  /\ faultSeen = FALSE
  /\ startupOk = FALSE
  /\ probe = "none"

Init == CaptureInit /\ ReportIdle

(* ------------------------------ startup -------------------------------- *)
\* process.exit(code) of a startup error: nothing has been spawned yet.
StartupExit(code) ==
  /\ pc' = "exited"
  /\ finalCode' = code
  /\ UNCHANGED <<win32, hostPingOn, hostSideOn>>
  /\ UNCHANGED startupVars

\* runCaptureFromCli: parseCaptureArgs; a ZodError exits 1, any other
\* error is rethrown and reaches the catch of capture.js, which exits 1.
ParseArgs ==
  /\ pc = "args"
  /\ \E r \in {"ok", "zod", "other"} :
       IF r = "ok"
         THEN /\ pc' = "config"
              /\ UNCHANGED <<win32, hostPingOn, hostSideOn, finalCode>>
              /\ UNCHANGED startupVars
         ELSE StartupExit(1)
  /\ UNCHANGED probe

\* runCaptureFromCli: resolveHostPingConfig / resolveHostSidePingConfig /
\* resolvePingLogTzOffset; any throw exits 1.
ResolveConfig ==
  /\ pc = "config"
  /\ \/ \E hp \in BOOLEAN, hs \in BOOLEAN :
          /\ hostPingOn' = hp
          /\ hostSideOn' = hs
          /\ pc' = "env"
          /\ UNCHANGED <<win32, finalCode>>
          /\ UNCHANGED startupVars
     \/ StartupExit(1)
  /\ UNCHANGED probe

\* runCaptureFromCli: ensureAdbAndPickDevice; any throw exits 1.
EnsureAdb ==
  /\ pc = "env"
  /\ \/ /\ pc' = "verify"
        /\ UNCHANGED <<win32, hostPingOn, hostSideOn, finalCode>>
        /\ UNCHANGED startupVars
     \/ StartupExit(1)
  /\ UNCHANGED probe

\* verifyHostSidePingReady: returns at once when host-side ping is off;
\* otherwise four probes in sequence, the first failing one throws.  The
\* throw leaves runCaptureFlow and is caught by capture.js (exit 1).
\* r names the first probe whose exit code is not 0 (a probe that hits its
\* 20 s timeout has no exit code, which is not 0 either), "ok" when none.
ProbeResults == {"ok", "psProbe", "npingCheck", "statusCheck", "startProbe"}

\* `if (probe.exitCode !== 0) throw new Error(...)`
ProbeFailed_Ignored(r) == FALSE
ProbeFailed(r) == r # "ok"

VerifyHostSide ==
  /\ pc = "verify"
  /\ \E r \in (IF hostSideOn THEN ProbeResults ELSE {"ok"}) :
       /\ probe' = r
       /\ IF ProbeFailed(r)
            THEN StartupExit(1)
            ELSE /\ pc' = "launch"
                 /\ UNCHANGED <<win32, hostPingOn, hostSideOn, finalCode>>
                 /\ UNCHANGED startupVars

\* writeJson(filePath, obj): the file now holds obj.
WriteJson_Skipped(file, obj) == file
WriteJson(file, obj) == obj

(* ------------------------- launch (runCaptureFlow) --------------------- *)
\* runCaptureFlow from buildCapturePaths to `await finalizePromise`: first
\* manifest write, logcat -c (its failure is only logged), spawn of logcat
\* and of the optional pings, queue and state creation, registration of the
\* signal / fault handlers, arming of the six task timers and of auto-stop.
\* adb and ssh were run successfully by the startup checks, so every spawn
\* yields a process with a pid.
Launch ==
  /\ pc = "launch"
  /\ child' = [c \in Children |->
                IF c = "logcat" THEN "running"
                ELSE IF c = "ping"
                  THEN (IF hostPingOn THEN "running" ELSE "none")
                ELSE (IF hostSideOn THEN "running" ELSE "none")]
  /\ meta' = createCaptureMeta
  /\ metaFile' = WriteJson(metaFile, createCaptureMeta)
  /\ timer' = [t \in TaskNames |-> "timeout"]
  /\ autoStop' = "armed"
  /\ startupOk' = TRUE
  /\ pc' = "running"
  /\ UNCHANGED <<win32, hostPingOn, hostSideOn, sent, termIdx, termPc,
                 termDone, remoteStops, stopping, pending, queued,
                 runningTask, stats, log, streamsClosed, exitCodeArg,
                 finalCode, sleepMs, drainElapsed, stopRuns, reportRuns,
                 firstReason, faultSeen, probe, reportVars>>

\* The process is alive with its handlers registered.
LivePcs == {"running", "drain", "term", "closing", "report", "open"}

(* --------------------------- dumpsys scheduler ------------------------- *)
TotalRuns == stats["wifi"].runs + stats["connectivity"].runs
             + stats["deviceidle"].runs + stats["power"].runs
             + stats["alarm"].runs + stats["jobscheduler"].runs

\* `queue.pending + queue.size > 0`
QueueBusy_SizeOnly(p, n) == n > 0
QueueBusy(p, n) == p + n > 0

\* Order of the two early returns of scheduleTask.
ScheduleBranch_NoStoppingCheck(isStopping, busy) ==
  IF busy THEN "busy" ELSE "enqueue"
ScheduleBranch(isStopping, busy) ==
  IF isStopping THEN "stopping"
  ELSE IF busy THEN "busy"
  ELSE "enqueue"

\* `stat.skipped += 1`
SkipStat_NotCounted(stat) == stat
SkipStat(stat) == [stat EXCEPT !.skipped = @ + 1]

\* appendSnapshot header of a tick that did not run: status and detail.
SkippedFrame(reason) == <<"SKIPPED", reason>>
\* appendSnapshot header of an invocation that ran: status and detail.
\* detail is String(err.message || err) after a throw, which is never
\* empty; the optional `stderr=` detail of a successful run is not tracked.
ResultFrame(status) ==
  <<status, IF status = "OK" THEN "" ELSE "err.message">>

\* scheduleTask(task): count the run, then skip (stopping / busy) or hand
\* the invocation to the queue.  PQueue.add starts the job synchronously
\* when fewer than `concurrency` jobs are pending, otherwise it queues it.
ScheduleTask(t) ==
  LET counted == [stats[t] EXCEPT !.runs = @ + 1]
      branch == ScheduleBranch(stopping, QueueBusy(pending, Len(queued)))
  IN  IF branch = "stopping" THEN
        /\ stats' = [stats EXCEPT ![t] = SkipStat(counted)]
        /\ log' = [log EXCEPT ![t] = Append(@, SkippedFrame("reason=stopping"))]
        /\ UNCHANGED <<pending, queued, runningTask>>
      ELSE IF branch = "busy" THEN
        /\ stats' = [stats EXCEPT ![t] = SkipStat(counted)]
        /\ log' = [log EXCEPT ![t] = Append(@, SkippedFrame("reason=busy"))]
        /\ UNCHANGED <<pending, queued, runningTask>>
      ELSE
        /\ stats' = [stats EXCEPT ![t] = counted]
        /\ log' = log
        /\ IF pending < Concurrency
             THEN /\ pending' = pending + 1
                  /\ runningTask' = runningTask \cup {t}
                  /\ queued' = queued
             ELSE /\ queued' = Append(queued, t)
                  /\ UNCHANGED <<pending, runningTask>>

TASK_START_OFFSETS_MS == <<0, 400, 800, 1200, 1600, 2000>>
IntervalMs == <<2000, 10000, 10000, 10000, 30000, 30000>>

TaskIndex(t) == CHOOSE i \in 1..Len(TASKS) : TASKS[i] = t

\* The six start timeouts are armed in one turn with increasing offsets,
\* so the runtime fires them in that order.
StartTimeoutDue(t) ==
  \A i \in 1..Len(TASKS) :
    TASK_START_OFFSETS_MS[i] < TASK_START_OFFSETS_MS[TaskIndex(t)]
      => timer[TASKS[i]] # "timeout"

\* The interval of task t is armed by its start timeout, so its first
\* expiry lies later than offset + intervalMs (a zero delay counts as
\* 1 ms): it cannot fire before a start timeout that expires by then.
IntervalDue(t) ==
  \A i \in 1..Len(TASKS) :
    timer[TASKS[i]] = "timeout"
      => TASK_START_OFFSETS_MS[i]
           > TASK_START_OFFSETS_MS[TaskIndex(t)] + IntervalMs[TaskIndex(t)]

TickDue(t) ==
  IF timer[t] = "timeout" THEN StartTimeoutDue(t)
  ELSE IF timer[t] = "interval" THEN IntervalDue(t)
  ELSE FALSE

\* A timer callback of task t fires: the start-offset timeout (which then
\* creates the interval) or the interval itself.
Tick(t) ==
  /\ pc \in LivePcs
  /\ TickDue(t)
  /\ TotalRuns < MaxTicks
  /\ ScheduleTask(t)
  /\ timer' = [timer EXCEPT ![t] = "interval"]
  /\ UNCHANGED <<pc, win32, hostPingOn, hostSideOn, child, sent, termIdx,
                 termPc, termDone, remoteStops, stopping, autoStop, meta,
                 metaFile, streamsClosed, exitCodeArg, finalCode, sleepMs,
                 drainElapsed, stopRuns, reportRuns, firstReason,
                 faultSeen, startupOk, probe, reportVars>>

\* runDumpsysTask settles: adb returned (OK), timed out after 20 s
\* (TIMEOUT) or failed (ERROR); the counter and the frame are written in
\* the same turn, then PQueue starts the next queued job, if any.
Outcomes == {"OK", "TIMEOUT", "ERROR"}

CountOutcome_FailuresDropped(stat, o) ==
  IF o = "OK" THEN [stat EXCEPT !.ok = @ + 1] ELSE stat
CountOutcome(stat, o) ==
  IF o = "OK" THEN [stat EXCEPT !.ok = @ + 1]
  ELSE IF o = "TIMEOUT" THEN [stat EXCEPT !.timeout = @ + 1]
  ELSE [stat EXCEPT !.error = @ + 1]

DumpsysDone(t) ==
  /\ pc \in LivePcs
  /\ t \in runningTask
  /\ \E o \in Outcomes :
       /\ stats' = [stats EXCEPT ![t] = CountOutcome(@, o)]
       /\ log' = [log EXCEPT ![t] = Append(@, ResultFrame(o))]
  /\ IF queued # <<>>
       THEN /\ runningTask' = (runningTask \ {t}) \cup {Head(queued)}
            /\ queued' = Tail(queued)
            /\ pending' = pending
       ELSE /\ runningTask' = runningTask \ {t}
            /\ queued' = queued
            /\ pending' = pending - 1
  /\ UNCHANGED <<pc, win32, hostPingOn, hostSideOn, child, sent, termIdx,
                 termPc, termDone, remoteStops, stopping, timer, autoStop,
                 meta, metaFile, streamsClosed, exitCodeArg, finalCode,
                 sleepMs, drainElapsed, stopRuns, reportRuns, firstReason, faultSeen, startupOk, probe, reportVars>>

ChildIndex(c) == CHOOSE i \in 1..Len(ChildOrder) : ChildOrder[i] = c

\* stop() has not yet left the block of child c: the program can still
\* observe whether c has exited.
Observed(c) ==
  \/ pc \in {"running", "drain"}
  \/ pc = "term" /\ ChildIndex(c) >= termIdx

\* A child process ends (on its own, or as the effect of a kill request).
\* Exits that happen after stop() is done with the child are not tracked.
ChildExit(c) ==
  /\ Observed(c)
  /\ child[c] = "running"
  /\ child' = [child EXCEPT ![c] = "exited"]
  /\ UNCHANGED <<pc, win32, hostPingOn, hostSideOn, sent, termIdx, termPc,
                 termDone, remoteStops, stopping, timer, autoStop, pending,
                 queued, runningTask, stats, log, meta, metaFile,
                 streamsClosed, exitCodeArg, finalCode, sleepMs,
                 drainElapsed, stopRuns, reportRuns, firstReason,
                 faultSeen, startupOk, probe, reportVars>>

(* ------------------------------- stop() -------------------------------- *)
\* `if (state.stopping) return;`
StopGuard_Missing(isStopping) == FALSE
StopGuard(isStopping) == isStopping

\* stop(reason, exitCode) up to its first await: raise the flag, stamp the
\* manifest, clear every timer handle, then wait for the queue to drain.
Stop(reason, code) ==
  /\ firstReason' = IF firstReason = "null" THEN reason ELSE firstReason
  /\ IF StopGuard(stopping)
       THEN UNCHANGED <<stopping, meta, timer, pc, exitCodeArg, sleepMs,
                        stopRuns>>
       ELSE /\ stopping' = TRUE
            /\ meta' = [meta EXCEPT !.stopReason = reason,
                                    !.stoppedAtIso = TRUE]
            /\ timer' = [t \in TaskNames |-> "cleared"]
            /\ pc' = "drain"
            /\ exitCodeArg' = code
            /\ sleepMs' = DrainWaitMs
            /\ stopRuns' = stopRuns + 1

stopFrame == <<win32, hostPingOn, hostSideOn, child, sent, termIdx, termPc,
               termDone, remoteStops, pending, queued, runningTask, stats,
               log, metaFile, streamsClosed, finalCode, drainElapsed,
               reportRuns, startupOk, probe, reportVars>>

\* process.on('SIGINT' | 'SIGTERM' | 'SIGBREAK')
Signal(reason) ==
  /\ pc \in LivePcs
  /\ Stop(reason, 0)
  /\ autoStop' = IF autoStop = "armed" /\ ~StopGuard(stopping)
                   THEN "cleared" ELSE autoStop
  /\ UNCHANGED faultSeen
  /\ UNCHANGED stopFrame

\* process.on('uncaughtException' | 'unhandledRejection')
Fault(reason) ==
  /\ pc \in LivePcs
  /\ Stop(reason, 1)
  /\ autoStop' = IF autoStop = "armed" /\ ~StopGuard(stopping)
                   THEN "cleared" ELSE autoStop
  /\ faultSeen' = TRUE
  /\ UNCHANGED stopFrame

\* state.autoStopHandle fires after `minutes`.
AutoStop ==
  /\ pc \in LivePcs
  /\ autoStop = "armed"
  /\ autoStop' = "fired"
  /\ Stop("duration_reached", 0)
  /\ UNCHANGED faultSeen
  /\ UNCHANGED stopFrame

(* ----------------- stop(): drain, terminate, finish -------------------- *)
CurChild == ChildOrder[termIdx]

Pos(p, i, tp, ms) == [pc |-> p, idx |-> i, tpc |-> tp, sleep |-> ms]

\* Where stop() comes to rest next, with what it did on the way: `done` is
\* termDone afterwards, `sig` the child that was sent SIGINT ("none" if no
\* child was).
Rest(p, done, sig) == [pos |-> p, done |-> done, sig |-> sig]

RECURSIVE EnterBlock(_, _), AfterTerminate(_, _)

\* stop() reaches the block of ChildOrder[i].  An absent runtime skips the
\* block.  terminateSubprocess returns at once for a child that has exited;
\* otherwise it sends SIGINT and awaits the exit or 3.5 s.  Past the last
\* block stop() stamps the manifest and awaits closeStreams.
EnterBlock(i, done) ==
  IF i > Len(ChildOrder) THEN Rest(Pos("closing", 0, "idle", 0), done, "none")
  ELSE IF child[ChildOrder[i]] = "none" THEN EnterBlock(i + 1, done)
  ELSE IF child[ChildOrder[i]] = "exited"
    THEN AfterTerminate(i, [done EXCEPT ![ChildOrder[i]] = TRUE])
  ELSE Rest(Pos("term", i, "wait1", PoliteWaitMs), done, ChildOrder[i])

\* terminateSubprocess(ChildOrder[i]) has returned: nothing more for
\* logcat; the 800 ms exit poll for the device ping (settled at once when
\* the child has exited); the remote stop script for the host-side session.
AfterTerminate(i, done) ==
  IF ChildOrder[i] = "logcat" THEN EnterBlock(i + 1, done)
  ELSE IF ChildOrder[i] = "ping" THEN
    (IF child["ping"] = "exited" THEN EnterBlock(i + 1, done)
     ELSE Rest(Pos("term", i, "poll", ExitPollMs), done, "none"))
  ELSE Rest(Pos("term", i, "remoteStop", 0), done, "none")

\* stop() runs on to the resting point r.
RunTo(r) ==
  /\ pc' = r.pos.pc
  /\ termIdx' = r.pos.idx
  /\ termPc' = r.pos.tpc
  /\ sleepMs' = r.pos.sleep
  /\ termDone' = r.done
  /\ sent' = IF r.sig = "none" THEN sent
             ELSE [sent EXCEPT ![r.sig] = Append(@, "SIGINT")]
  /\ remoteStops' = remoteStops + (IF r.pos.tpc = "remoteStop" THEN 1 ELSE 0)
  /\ meta' = IF r.pos.pc = "closing"
               THEN [meta EXCEPT !.endedAtIso = TRUE, !.durationSec = TRUE]
               ELSE meta

\* `queue.onIdle()` is settled: nothing pending, nothing queued.
OnIdleResolved_NoWait(p, n) == TRUE
OnIdleResolved(p, n) == p = 0 /\ n = 0

stopRest == <<win32, hostPingOn, hostSideOn, child, stopping, timer,
              autoStop, pending, queued, runningTask, stats, log, metaFile,
              streamsClosed, exitCodeArg, finalCode, stopRuns, reportRuns,
              firstReason, faultSeen, startupOk, probe, reportVars>>

\* `await Promise.race([queue.onIdle(), sleep(25000)])`, won by onIdle.
DrainIdle ==
  /\ pc = "drain"
  /\ OnIdleResolved(pending, Len(queued))
  /\ RunTo(EnterBlock(1, termDone))
  /\ UNCHANGED drainElapsed
  /\ UNCHANGED stopRest

\* The same race, won by sleep(25000): the queue is still not idle.
DrainTimeout ==
  /\ pc = "drain"
  /\ sleepMs = DrainWaitMs
  /\ ~(pending = 0 /\ Len(queued) = 0)
  /\ drainElapsed' = TRUE
  /\ RunTo(EnterBlock(1, termDone))
  /\ UNCHANGED stopRest

\* `process.platform === 'win32' && proc.pid`
UseTreeKill_Always(isWin32, hasPid) == TRUE
UseTreeKill(isWin32, hasPid) == isWin32 /\ hasPid

\* `await Promise.race([exitPromise, sleep(3500)])`, won by exitPromise:
\* proc.exitCode is set and terminateSubprocess returns.
PoliteWaitExit ==
  /\ pc = "term"
  /\ termPc = "wait1"
  /\ child[CurChild] = "exited"
  /\ RunTo(AfterTerminate(termIdx, [termDone EXCEPT ![CurChild] = TRUE]))
  /\ UNCHANGED drainElapsed
  /\ UNCHANGED stopRest

\* The same race, won by sleep(3500) with the child still alive: on win32
\* (with a pid) run `taskkill /PID <pid> /T /F`, elsewhere send SIGKILL.
PoliteWaitTimeout ==
  /\ pc = "term"
  /\ termPc = "wait1"
  /\ sleepMs = PoliteWaitMs
  /\ child[CurChild] = "running"
  /\ IF UseTreeKill(win32, child[CurChild] # "none")
       THEN /\ sent' = [sent EXCEPT ![CurChild] = Append(@, "TASKKILL")]
            /\ termPc' = "taskkill"
            /\ sleepMs' = 0
       ELSE /\ sent' = [sent EXCEPT ![CurChild] = Append(@, "SIGKILL")]
            /\ termPc' = "wait2"
            /\ sleepMs' = KillWaitMs
  /\ UNCHANGED <<pc, termIdx, termDone, remoteStops, meta, drainElapsed>>
  /\ UNCHANGED stopRest

\* `await execa('taskkill', ...)` returns; the 1.5 s wait follows and
\* terminateSubprocess returns after it.
TaskkillDone ==
  /\ pc = "term"
  /\ termPc = "taskkill"
  /\ termPc' = "wait2"
  /\ sleepMs' = KillWaitMs
  /\ UNCHANGED <<pc, termIdx, sent, termDone, remoteStops, meta,
                 drainElapsed>>
  /\ UNCHANGED stopRest

\* `await Promise.race([exitPromise, sleep(1500)])`, won by exitPromise.
KillWaitExit ==
  /\ pc = "term"
  /\ termPc = "wait2"
  /\ child[CurChild] = "exited"
  /\ RunTo(AfterTerminate(termIdx, [termDone EXCEPT ![CurChild] = TRUE]))
  /\ UNCHANGED drainElapsed
  /\ UNCHANGED stopRest

\* The same race, won by sleep(1500) with the child still alive.
KillWaitTimeout ==
  /\ pc = "term"
  /\ termPc = "wait2"
  /\ sleepMs = KillWaitMs
  /\ child[CurChild] = "running"
  /\ RunTo(AfterTerminate(termIdx, [termDone EXCEPT ![CurChild] = TRUE]))
  /\ UNCHANGED drainElapsed
  /\ UNCHANGED stopRest

\* stopHostSidePingRemote settles (ssh returned, or its 20 s timeout hit,
\* or it threw and stop() logged the warning); the exit poll follows.
RemoteStopDone ==
  /\ pc = "term"
  /\ termPc = "remoteStop"
  /\ RunTo(IF child[CurChild] = "exited"
             THEN EnterBlock(termIdx + 1, termDone)
             ELSE Rest(Pos("term", termIdx, "poll", ExitPollMs), termDone,
                       "none"))
  /\ UNCHANGED drainElapsed
  /\ UNCHANGED stopRest

\* `await Promise.race([runtime.exitPromise, sleep(800)])`, won by the exit.
ExitPollExit ==
  /\ pc = "term"
  /\ termPc = "poll"
  /\ child[CurChild] = "exited"
  /\ RunTo(EnterBlock(termIdx + 1, termDone))
  /\ UNCHANGED drainElapsed
  /\ UNCHANGED stopRest

\* The same race, won by sleep(800) with the child still alive.
ExitPollTimeout ==
  /\ pc = "term"
  /\ termPc = "poll"
  /\ sleepMs = ExitPollMs
  /\ child[CurChild] = "running"
  /\ RunTo(EnterBlock(termIdx + 1, termDone))
  /\ UNCHANGED drainElapsed
  /\ UNCHANGED stopRest

\* closeStreams resolved: write the manifest, call runParseReport.
CloseStreamsDone ==
  /\ pc = "closing"
  /\ streamsClosed' = TRUE
  /\ metaFile' = WriteJson(metaFile, meta)
  /\ reportRuns' = reportRuns + 1
  /\ pc' = "report"
  /\ UNCHANGED <<win32, hostPingOn, hostSideOn, child, sent, termIdx, termPc,
                 termDone, remoteStops, stopping, timer, autoStop, pending,
                 queued, runningTask, stats, log, meta, exitCodeArg,
                 finalCode, sleepMs, drainElapsed, stopRuns, firstReason, faultSeen, startupOk, probe, reportVars>>

(* ------------------------- report phase and exit ----------------------- *)
ReportOutcomes ==
  {[kind |-> "missing", exitCode |-> NoCode],
   [kind |-> "threw", exitCode |-> NoCode]}
  \cup {[kind |-> "exit", exitCode |-> e] : e \in {NoCode, 0, 1, 2}}

\* runParseReport: 1 when parse_report.js is missing or cannot be started,
\* else `result.exitCode ?? 1`.
runParseReport(o) ==
  IF o.kind = "missing" THEN 1
  ELSE IF o.kind = "threw" THEN 1
  ELSE IF o.exitCode = NoCode THEN 1
  ELSE o.exitCode

\* `if (parseExitCode !== 0)`
ReportFailed_Ignored(code) == FALSE
ReportFailed(code) == code # 0

\* runParseReport settled: record parseExitCode, rewrite the manifest; a
\* non-zero code resolves the final promise with 1 and the main flow calls
\* process.exit(1) in the same turn; otherwise the report viewer is opened.
ReportDone ==
  /\ pc = "report"
  /\ \E o \in ReportOutcomes :
       LET code == runParseReport(o)
           m == [meta EXCEPT !.parseExitCode = code]
       IN  /\ meta' = m
           /\ metaFile' = WriteJson(metaFile, m)
           /\ IF ReportFailed(code)
                THEN /\ finalCode' = 1
                     /\ pc' = "exited"
                ELSE /\ finalCode' = finalCode
                     /\ pc' = "open"
  /\ UNCHANGED <<win32, hostPingOn, hostSideOn, child, sent, termIdx, termPc,
                 termDone, remoteStops, stopping, timer, autoStop, pending,
                 queued, runningTask, stats, log, streamsClosed, exitCodeArg,
                 sleepMs, drainElapsed, stopRuns, reportRuns, firstReason, faultSeen, startupOk, probe, reportVars>>

\* `await open(reportPath)` settled (its failure is only logged):
\* finalizeResolve(exitCode), then process.exit(finalCode).
OpenDone ==
  /\ pc = "open"
  /\ finalCode' = exitCodeArg
  /\ pc' = "exited"
  /\ UNCHANGED <<win32, hostPingOn, hostSideOn, child, sent, termIdx, termPc,
                 termDone, remoteStops, stopping, timer, autoStop, pending,
                 queued, runningTask, stats, log, meta, metaFile,
                 streamsClosed, exitCodeArg, sleepMs, drainElapsed, stopRuns,
                 reportRuns, firstReason, faultSeen, startupOk, probe, reportVars>>

(* ---------------------------- specifications --------------------------- *)
Startup == ParseArgs \/ ResolveConfig \/ EnsureAdb \/ VerifyHostSide \/ Launch

Environment ==
  \/ \E t \in TaskNames : Tick(t)
  \/ \E t \in TaskNames : DumpsysDone(t)
  \/ \E c \in Children : ChildExit(c)
  \/ \E r \in SignalReasons : Signal(r)
  \/ \E r \in FaultReasons : Fault(r)
  \/ AutoStop

Shutdown ==
  \/ DrainIdle \/ DrainTimeout
  \/ PoliteWaitExit \/ PoliteWaitTimeout
  \/ TaskkillDone
  \/ KillWaitExit \/ KillWaitTimeout
  \/ RemoteStopDone
  \/ ExitPollExit \/ ExitPollTimeout
  \/ CloseStreamsDone
  \/ ReportDone \/ OpenDone

Next == Startup \/ Environment \/ Shutdown

Spec == Init /\ [][Next]_vars

\* scheduleTask called although the handle of its timer was cleared by
\* stop(): the case the stopping branch of scheduleTask is written for.
LateTick(t) ==
  /\ pc \in LivePcs
  /\ stopping
  /\ timer[t] = "cleared"
  /\ TotalRuns < MaxTicks
  /\ ScheduleTask(t)
  /\ UNCHANGED <<pc, win32, hostPingOn, hostSideOn, child, sent, termIdx,
                 termPc, termDone, remoteStops, stopping, timer, autoStop,
                 meta, metaFile, streamsClosed, exitCodeArg, finalCode,
                 sleepMs, drainElapsed, stopRuns, reportRuns, firstReason,
                 faultSeen, startupOk, probe, reportVars>>

\* The state Launch leaves behind when neither ping is configured.
InitLaunched ==
  /\ pc = "running"
  /\ win32 \in BOOLEAN
  /\ hostPingOn = FALSE
  /\ hostSideOn = FALSE
  /\ child = [c \in Children |-> IF c = "logcat" THEN "running" ELSE "none"]
  /\ sent = [c \in Children |-> <<>>]
  /\ termIdx = 0
  /\ termPc = "idle"
  /\ termDone = [c \in Children |-> FALSE]
  /\ remoteStops = 0
  /\ stopping = FALSE
  /\ timer = [t \in TaskNames |-> "timeout"]
  /\ autoStop = "armed"
  /\ pending = 0
  /\ queued = <<>>
  /\ runningTask = {}
  /\ stats = [t \in TaskNames |-> NewStat]
  /\ log = [t \in TaskNames |-> <<>>]
  /\ meta = createCaptureMeta
  /\ metaFile = createCaptureMeta
  /\ streamsClosed = FALSE
  /\ exitCodeArg = 0
  /\ finalCode = NoCode
  /\ sleepMs = 0
  /\ drainElapsed = FALSE
  /\ stopRuns = 0
  /\ reportRuns = 0
  /\ firstReason = "null"
  /\ faultSeen = FALSE
  /\ startupOk = TRUE
  /\ probe = "ok"
  /\ ReportIdle

NextLateTick ==
  \/ Environment
  \/ \E t \in TaskNames : LateTick(t)
  \/ DrainIdle \/ DrainTimeout
  \/ PoliteWaitExit \/ PoliteWaitTimeout
  \/ TaskkillDone
  \/ KillWaitExit \/ KillWaitTimeout
  \/ CloseStreamsDone
  \/ ReportDone \/ OpenDone

\* A launched run (logcat only) in which scheduleTask may also be called
\* after the flag is up.
SpecLateTick == InitLaunched /\ [][NextLateTick]_vars

\* Steps of stop() that the runtime itself guarantees: timers fire, settled
\* promises resume, stream closing and the bounded ssh call return.  The
\* awaits of `taskkill` and of the report child carry no timeout.
StopProgress ==
  \/ DrainIdle \/ DrainTimeout
  \/ PoliteWaitExit \/ PoliteWaitTimeout
  \/ KillWaitExit \/ KillWaitTimeout
  \/ RemoteStopDone
  \/ ExitPollExit \/ ExitPollTimeout
  \/ CloseStreamsDone
  \/ OpenDone

SpecFair == Init /\ [][Next]_vars /\ WF_vars(StopProgress)

(* ===================== report phase: event store ====================== *)
Abs(x) == IF x < 0 THEN 0 - x ELSE x

Timestamps == 0..MaxTs

\* avoidNearDuplicateMs of a call: 0 (the logcat parser) or a type-specific
\* tolerance (the dumpsys transition parsers), here one time unit.
Tolerances == {0, 1}

\* The loop of addEvent from index i down to 1: TRUE when it returns false
\* (a listed timestamp within tol), FALSE when it ends or breaks.
RECURSIVE NearDuplicateScan(_, _, _, _)
NearDuplicateScan(list, i, ms, tol) ==
  IF i < 1 THEN FALSE
  ELSE IF Abs(ms - list[i]) <= tol THEN TRUE
  ELSE IF ms - list[i] > tol THEN FALSE
  ELSE NearDuplicateScan(list, i - 1, ms, tol)

\* addEvent(type, ts, source, rawLine, avoidNearDuplicateMs)
Rejected(list, ms, tol) ==
  tol > 0 /\ NearDuplicateScan(list, Len(list), ms, tol)

AddEvent(type, ts, tol) ==
  /\ storePc = "adding"
  /\ lastAdd.n < MaxAdds
  /\ LET list == eventsByType[type]
          ret == ~Rejected(list, ts, tol)
     IN  /\ lastAdd' = [n |-> lastAdd.n + 1, type |-> type, ts |-> ts,
                        tol |-> tol, ret |-> ret]
         /\ IF ret
              THEN /\ eventsByType' = [eventsByType EXCEPT ![type] = Append(list, ts)]
                   /\ events' = Append(events, <<type, ts>>)
              ELSE UNCHANGED <<eventsByType, events>>
  /\ UNCHANGED <<storePc, storeFrame>>

\* Array.prototype.sort with the comparator a - b on the keys: a stable
\* sort.  keys[i] is the key of seq[i]; the element of stable rank r is the
\* one with r - 1 elements before it in (key, index) order.
StableRank(keys, i) ==
  1 + Cardinality({j \in 1..Len(keys) :
                     keys[j] < keys[i] \/ (keys[j] = keys[i] /\ j < i)})

SortBy_Identity(seq, keys) == seq
SortBy(seq, keys) ==
  [r \in 1..Len(seq) |->
     seq[CHOOSE i \in 1..Len(seq) : StableRank(keys, i) = r]]

TsOfEvents(evs) == [i \in 1..Len(evs) |-> evs[i][2]]

\* sortAll(): events and every per-type list sorted by timestamp.
SortAll ==
  /\ storePc = "adding"
  /\ events' = SortBy(events, TsOfEvents(events))
  /\ eventsByType' = [ty \in EventTypes |->
                        SortBy(eventsByType[ty], eventsByType[ty])]
  /\ storePc' = "sorted"
  /\ UNCHANGED <<lastAdd, storeFrame>>

\* isTsInWindows(ts, windows): windows are pairs <<startTs, endTs>>.
isTsInWindows(ms, windows) ==
  \E k \in 1..Len(windows) : ms >= windows[k][1] /\ ms <= windows[k][2]

\* filterEventsByWindows(events, windows)
filterEventsByWindows(evs, windows) ==
  IF windows = <<>> THEN <<>>
  ELSE SelectSeq(evs, LAMBDA e : isTsInWindows(e[2], windows))

\* buildEventsByType(events): per type the timestamps in event order, then
\* each array sorted.
TsOfType(evs, ty) ==
  LET sel == SelectSeq(evs, LAMBDA e : e[1] = ty)
  IN  [i \in 1..Len(sel) |-> sel[i][2]]

buildEventsByType(evs) ==
  [ty \in EventTypes |-> SortBy(TsOfType(evs, ty), TsOfType(evs, ty))]

\* What runReportFromCli hands on after store.sortAll().
eventsByTypeAll == eventsByType
eventsByTypeSession(windows) ==
  buildEventsByType(filterEventsByWindows(events, windows))

NextStore ==
  \/ \E ty \in EventTypes, ts \in Timestamps, tol \in Tolerances :
       AddEvent(ty, ts, tol)
  \/ SortAll

\* The report child feeding the store and sorting it once, as
\* runReportFromCli does; the capture process is not running.
InitStore ==
  /\ CaptureInit
  /\ win32 = FALSE
  /\ NoManifest
  /\ NoTee
  /\ NoFocus
  /\ NoScan
  /\ NoPingParse
  /\ NoDetection
  /\ NoReportOutput
  /\ createEventStore
  /\ EmptySnapshotFile
  /\ NoWindows
  /\ EmptyPingResult
  /\ NoRanking

SpecStore == InitStore /\ [][NextStore]_vars

(* ==================== report phase: snapshot files ==================== *)
\* A line of the file is [text, kv]: text is the line up to its first
\* key=value token, kv the key=value tokens that follow, in order.
startMarker == "### SNAPSHOT START"
endMarker == "### SNAPSHOT END"
Line(text) == [text |-> text, kv |-> <<>>]

\* `${durationMs}` and Number(...): decimal digits, most significant first.
RECURSIVE DecimalDigits(_)
DecimalDigits(n) ==
  IF n < 10 THEN <<n>> ELSE DecimalDigits(n \div 10) \o <<n % 10>>

RECURSIVE Number(_)
Number(digits) ==
  IF digits = <<>> THEN 0
  ELSE 10 * Number(SubSeq(digits, 1, Len(digits) - 1)) + digits[Len(digits)]

\* Lines a dumpsys payload is made of (the payload is their join with \n):
\* ordinary text, the empty line, and text that looks like the end marker.
PayloadLines == {"data", "", endMarker}

RECURSIVE SeqsUpTo(_, _)
SeqsUpTo(S, n) ==
  IF n = 0 THEN {<<>>}
  ELSE SeqsUpTo(S, n - 1)
         \cup {Append(q, x) : q \in {r \in SeqsUpTo(S, n - 1) : Len(r) = n - 1}, x \in S}

Payloads == SeqsUpTo(PayloadLines, MaxLines)

\* new Date().toISOString() of the n-th call.
HostTsOf == <<"2026-01-01T00:00:00.000Z", "2026-01-01T00:00:02.000Z",
              "2026-01-01T00:00:04.000Z", "2026-01-01T00:00:06.000Z">>

\* Status, duration and detail of the frames the orchestrator writes.
FrameKinds ==
  { [status |-> "OK", durationMs |-> 42, detail |-> ""],
    [status |-> "TIMEOUT", durationMs |-> 20000, detail |-> "timed_out"],
    [status |-> "SKIPPED", durationMs |-> 0, detail |-> "reason=busy"] }

\* `payload && payload.trim()`: some line of the payload is not blank.
HasOutput(payload) == \E i \in 1..Len(payload) : payload[i] # ""

\* `payload.endsWith('\n') ? payload : payload + '\n'`: the lines written
\* for the payload, which are its lines without one trailing empty line.
BodyWritten(payload) ==
  IF HasOutput(payload)
    THEN IF Len(payload) >= 2 /\ payload[Len(payload)] = ""
           THEN SubSeq(payload, 1, Len(payload) - 1)
           ELSE payload
  ELSE <<"[no output]">>

\* The header line of appendSnapshot.
HeaderLine(snap) ==
  [text |-> startMarker,
   kv |-> <<(<<"host_ts", snap.hostTs>>), <<"task", snap.taskName>>,
            <<"status", snap.status>>,
            <<"duration_ms", DecimalDigits(snap.durationMs)>>>>
          \o (IF snap.detail # "" THEN << <<"detail", snap.detail>> >> ELSE <<>>)]

\* appendSnapshot(stream, snap): header, body, end marker, blank line.
FrameLines(snap) ==
  <<HeaderLine(snap)>>
    \o [i \in 1..Len(BodyWritten(snap.payload)) |->
          Line(BodyWritten(snap.payload)[i])]
    \o <<Line(endMarker), Line("")>>

appendSnapshot(kind, payload) ==
  /\ Len(snapshots) < MaxSnaps
  /\ LET snap == [hostTs |-> HostTsOf[Len(snapshots) + 1],
                  taskName |-> "wifi", status |-> kind.status,
                  durationMs |-> kind.durationMs, detail |-> kind.detail,
                  payload |-> payload]
     IN  /\ snapshots' = Append(snapshots, snap)
         /\ snapFile' = snapFile \o FrameLines(snap)
  /\ UNCHANGED snapFrame

\* parseKV(segment)[key] || dflt: the last token with that key wins.
KV(kv, key, dflt) ==
  LET hits == {i \in 1..Len(kv) : kv[i][1] = key}
  IN  IF hits = {} THEN dflt
      ELSE kv[CHOOSE i \in hits : \A j \in hits : j <= i][2]

\* One iteration of the loop of parseSnapshotFile.  st.cur is <<>> for
\* null and <<record>> otherwise.
ParseLine(st, line) ==
  IF line.text = startMarker THEN
    [st EXCEPT !.cur = << [hostTs |-> KV(line.kv, "host_ts", ""),
                           task |-> KV(line.kv, "task", ""),
                           status |-> KV(line.kv, "status", ""),
                           durationMs |-> Number(KV(line.kv, "duration_ms", <<0>>)),
                           bodyLines |-> <<>>] >>]
  ELSE IF line.text = endMarker THEN
    [cur |-> <<>>, out |-> st.out \o st.cur]
  ELSE IF st.cur # <<>> THEN
    [st EXCEPT !.cur[1].bodyLines = Append(@, line.text)]
  ELSE st

RECURSIVE ParseLines(_, _)
ParseLines(lines, n) ==
  IF n = 0 THEN [cur |-> <<>>, out |-> <<>>]
  ELSE ParseLine(ParseLines(lines, n - 1), lines[n])

parseSnapshotFile(lines) == ParseLines(lines, Len(lines)).out

\* A skipped tick is written without payload; an invocation that ran
\* carries whatever adb printed.
PayloadsOf(kind) == IF kind.status = "SKIPPED" THEN {<<>>} ELSE Payloads

NextSnap ==
  \E kind \in FrameKinds :
    \E payload \in PayloadsOf(kind) : appendSnapshot(kind, payload)

InitSnap ==
  /\ CaptureInit
  /\ win32 = FALSE
  /\ NoManifest
  /\ NoTee
  /\ NoFocus
  /\ NoScan
  /\ NoPingParse
  /\ NoDetection
  /\ NoReportOutput
  /\ createEventStore
  /\ EmptySnapshotFile
  /\ NoWindows
  /\ EmptyPingResult
  /\ NoRanking

\* One snapshot stream being written frame by frame; the file can be
\* parsed back after any number of frames.
SpecSnap == InitSnap /\ [][NextSnap]_vars

(* =================== report phase: effective windows ================== *)
Max(a, b) == IF a >= b THEN a ELSE b
MsPerSec == 1000

\* Times on a one-second grid, in ms.
Times == {MsPerSec * t : t \in 0..MaxSec}

\* A valid stream window: startTs <= endTs.
WindowsAt(id) ==
  {[id |-> id, startTs |-> a, endTs |-> b] : a \in Times, b \in Times} 

RECURSIVE WindowSeqs(_)
WindowSeqs(n) ==
  IF n = 0 THEN {<<>>}
  ELSE WindowSeqs(n - 1)
         \cup {Append(q, w) : q \in {r \in WindowSeqs(n - 1) : Len(r) = n - 1},
                              w \in {x \in WindowsAt(n) : x.startTs <= x.endTs}}

\* Options of a report run: the three buffers (a negative one counts as
\* 0) and the capture range startTs <= endTs.
WinOptions ==
  {[preBufferSec |-> pre, postBufferSec |-> post,
    clockSkewToleranceSec |-> skew, minTs |-> lo, maxTs |-> hi] :
     pre \in {-1, 0, 1}, post \in {0, 1}, skew \in {0, 1},
     lo \in Times, hi \in Times}

\* clipDate(date, minDate, maxDate)
clipDate_Unclipped(date, minDate, maxDate) == date
clipDate(date, minDate, maxDate) ==
  IF date < minDate THEN minDate
  ELSE IF date > maxDate THEN maxDate
  ELSE date

\* `Math.max(0, (Number(sec) || 0) * 1000)`
BufferMs(sec) == Max(0, sec * MsPerSec)

\* The map step: expand by the buffers, clip to the capture range.
Expand(w, o) ==
  [startTs |-> clipDate(w.startTs - BufferMs(o.preBufferSec)
                          - BufferMs(o.clockSkewToleranceSec),
                        o.minTs, o.maxTs),
   endTs |-> clipDate(w.endTs + BufferMs(o.postBufferSec)
                        + BufferMs(o.clockSkewToleranceSec),
                      o.minTs, o.maxTs),
   baseWindowId |-> w.id]

StartsOf(ws) == [i \in 1..Len(ws) |-> ws[i].startTs]

\* map, filter (endTs >= startTs), sort by startTs.
Expanded(ws, o) ==
  LET mapped == [i \in 1..Len(ws) |-> Expand(ws[i], o)]
      kept == SelectSeq(mapped, LAMBDA w : w.endTs >= w.startTs)
  IN  SortBy(kept, StartsOf(kept))

\* One iteration of the merge loop.
MergeStep_NoExtend(merged, cur) ==
  IF cur.startTs <= merged[Len(merged)].endTs THEN merged
  ELSE Append(merged, cur)
MergeStep(merged, cur) ==
  LET last == merged[Len(merged)]
  IN  IF cur.startTs <= last.endTs
        THEN IF cur.endTs > last.endTs
               THEN [merged EXCEPT ![Len(merged)].endTs = cur.endTs]
               ELSE merged
      ELSE Append(merged, cur)

RECURSIVE MergeUpTo(_, _)
MergeUpTo(expanded, n) ==
  IF n = 1 THEN <<expanded[1]>>
  ELSE MergeStep(MergeUpTo(expanded, n - 1), expanded[n])

buildEffectiveWindows(ws, o) ==
  IF ws = <<>> THEN <<>>
  ELSE LET expanded == Expanded(ws, o)
       IN  IF expanded = <<>> THEN <<>>
           ELSE LET merged == MergeUpTo(expanded, Len(expanded))
                IN  [i \in 1..Len(merged) |->
                       [id |-> i, startTs |-> merged[i].startTs,
                        endTs |-> merged[i].endTs]]

\* runReportFromCli: streamDetection.effectiveWindows = buildEffectiveWindows(...)
BuildWindows ==
  /\ winPc = "detected"
  /\ effectiveWindows' = buildEffectiveWindows(validWindows, winOpts)
  /\ winPc' = "built"
  /\ UNCHANGED <<validWindows, winOpts, winFrame>>

NextWindows == BuildWindows

InitWindows ==
  /\ CaptureInit
  /\ win32 = FALSE
  /\ NoManifest
  /\ NoTee
  /\ NoFocus
  /\ NoScan
  /\ NoPingParse
  /\ NoDetection
  /\ NoReportOutput
  /\ createEventStore
  /\ EmptySnapshotFile
  /\ EmptyPingResult
  /\ NoRanking
  /\ validWindows \in WindowSeqs(MaxWindows)
  /\ winOpts \in {o \in WinOptions : o.minTs <= o.maxTs}
  /\ effectiveWindows = <<>>
  /\ winPc = "detected"

\* A detection result and a capture range, then the one call of
\* buildEffectiveWindows.
SpecWindows == InitWindows /\ [][NextWindows]_vars

(* ======================= report phase: ping log ======================= *)
maxGapMs == 1200          \* buildHighLatencyBursts(highSamples, maxGapMs = 1200)
JitterDeltaMs == 8        \* `if (deltaMs < 8) continue`
MinThresholdMs == 15      \* Math.max(15, baseline + 8)
BaselineMarginMs == 8

\* Sample times: at the maximal gap from one another, and just beyond it.
SampleTimes == {0, 1200, 2401}

\* What a parsed line contributes: no reply, a reply whose latency could
\* not be established (host-side reply without a matching send), or a
\* reply with a latency.  The latencies are even, so that the mean of two
\* of them is an integer.
SampleKinds ==
  {[success |-> FALSE, latencyMs |-> NoLatency],
   [success |-> TRUE, latencyMs |-> NoLatency]}
    \cup {[success |-> TRUE, latencyMs |-> l] : l \in {10, 18, 26}}

\* pushSample({ts, seq, success, latencyMs, ...}); seq is the arrival rank.
pushSample(ts, kind) ==
  /\ pingPc = "parsing"
  /\ Len(samples) < MaxSamples
  /\ samples' = Append(samples,
       [ts |-> ts, seq |-> Len(samples) + 1, success |-> kind.success,
        latencyMs |-> IF kind.success THEN kind.latencyMs ELSE NoLatency])
  /\ UNCHANGED <<pingResult, pingPc, pingFrame>>

TsOf(xs) == [i \in 1..Len(xs) |-> xs[i].ts]
LatencyOf(xs) == [i \in 1..Len(xs) |-> xs[i].latencyMs]

\* median(sortedArr) of simple-statistics: null for an empty array, else
\* the middle element or the mean of the two middle ones.
median(sortedArr) ==
  LET n == Len(sortedArr)
  IN  IF n = 0 THEN NoLatency
      ELSE IF n % 2 = 1 THEN sortedArr[(n + 1) \div 2]
      ELSE (sortedArr[n \div 2] + sortedArr[n \div 2 + 1]) \div 2

\* The burst opened by a sample, and the burst extended by one.
OpenBurst(sample) ==
  [startTs |-> sample.ts, endTs |-> sample.ts, count |-> 1,
   startSeq |-> sample.seq, endSeq |-> sample.seq,
   maxLatencyMs |-> sample.latencyMs, sumLatencyMs |-> sample.latencyMs]

ExtendBurst(cur, sample) ==
  [cur EXCEPT !.endTs = sample.ts, !.count = @ + 1, !.endSeq = sample.seq,
              !.maxLatencyMs = Max(@, sample.latencyMs),
              !.sumLatencyMs = @ + sample.latencyMs]

\* `gap > maxGapMs`: the sample starts a new burst.
SplitsBurst_Never(gap) == FALSE
SplitsBurst(gap) == gap > maxGapMs

\* The loop of buildHighLatencyBursts over the first n samples: the
\* closed bursts followed by the current one.
RECURSIVE BurstsUpTo(_, _)
BurstsUpTo(highSamples, n) ==
  IF n = 0 THEN <<>>
  ELSE IF n = 1 THEN <<OpenBurst(highSamples[1])>>
  ELSE LET prev == BurstsUpTo(highSamples, n - 1)
           cur == prev[Len(prev)]
           sample == highSamples[n]
       IN  IF SplitsBurst(sample.ts - cur.endTs)
             THEN Append(prev, OpenBurst(sample))
             ELSE [prev EXCEPT ![Len(prev)] = ExtendBurst(cur, sample)]

buildHighLatencyBursts(highSamples) ==
  BurstsUpTo(highSamples, Len(highSamples))

\* `if (deltaMs < 8) continue`
IsJitter_Strict(deltaMs) == deltaMs > JitterDeltaMs
IsJitter(deltaMs) == ~(deltaMs < JitterDeltaMs)

\* The jitter loop over successSamples[2..n].
RECURSIVE JitterUpTo(_, _)
JitterUpTo(successSamples, n) ==
  IF n <= 1 THEN <<>>
  ELSE LET prev == successSamples[n - 1]
           cur == successSamples[n]
           deltaMs == Abs(cur.latencyMs - prev.latencyMs)
           rest == JitterUpTo(successSamples, n - 1)
       IN  IF IsJitter(deltaMs)
             THEN Append(rest, [ts |-> cur.ts, seq |-> cur.seq,
                                latencyMs |-> cur.latencyMs,
                                prevLatencyMs |-> prev.latencyMs,
                                deltaMs |-> deltaMs])
             ELSE rest

\* `samples.filter((x) => x.success && Number.isFinite(x.latencyMs))`
SuccessSamples(xs) ==
  SelectSeq(xs, LAMBDA x : x.success /\ x.latencyMs # NoLatency)

\* End of parsePingHostLog: sort by ts, then threshold, high-latency
\* events, bursts and jitter events when there is a successful sample.
AnalysePing ==
  /\ pingPc = "parsing"
  /\ \E sorted \in {SortBy(samples, TsOf(samples))} :
     \E successSamples \in {SuccessSamples(sorted)} :
     \E sortedLatency \in {SortBy(LatencyOf(successSamples),
                                  LatencyOf(successSamples))} :
     \E baseline \in {median(sortedLatency)} :
     \E thresholdMs \in {Max(MinThresholdMs,
                              (IF baseline = NoLatency THEN 0 ELSE baseline)
                                + BaselineMarginMs)} :
     \E highSamples \in {SelectSeq(successSamples,
                                    LAMBDA x : x.latencyMs >= thresholdMs)} :
       /\ samples' = sorted
       /\ pingResult' =
            IF successSamples = <<>> THEN pingResult
            ELSE [highLatencyThresholdMs |-> thresholdMs,
                  highLatencyEvents |-> highSamples,
                  highLatencyBursts |-> buildHighLatencyBursts(highSamples),
                  jitterEvents |-> JitterUpTo(successSamples,
                                              Len(successSamples))]
  /\ pingPc' = "analysed"
  /\ UNCHANGED pingFrame

NextPing ==
  \/ \E ts \in SampleTimes, kind \in SampleKinds : pushSample(ts, kind)
  \/ AnalysePing

InitPing ==
  /\ CaptureInit
  /\ win32 = FALSE
  /\ NoManifest
  /\ NoTee
  /\ NoFocus
  /\ NoScan
  /\ NoPingParse
  /\ NoDetection
  /\ NoReportOutput
  /\ createEventStore
  /\ EmptySnapshotFile
  /\ NoWindows
  /\ EmptyPingResult
  /\ NoRanking

\* One ping log parsed line by line, then analysed.
SpecPing == InitPing /\ [][NextPing]_vars

(* ===================== report phase: cause ranking ==================== *)
\* x * (d / 10) for a one-digit decimal factor 0.d
TimesTenths(d, x) == (d * x) \div 10

\* clamp01(v) on finite values
clamp01(v) == IF v < 0 THEN 0 ELSE IF v > One THEN One ELSE v

\* computeScore(overlap, leadLag, intensity)
computeScore(overlap, leadLag, intensity) ==
  clamp01(TimesTenths(5, overlap) + TimesTenths(3, leadLag)
            + TimesTenths(2, intensity))

\* scoreToLevel(score): thresholds 0.7 and 0.45
scoreToLevel(score) ==
  IF score >= TimesTenths(7, One) THEN "high"
  ELSE IF 100 * score >= 45 * One THEN "medium"
  ELSE "low"

\* `degraded ? score * 0.7 : score`
AdjustedScore_Unscaled(score, isDegraded) == score
AdjustedScore(score, isDegraded) ==
  IF isDegraded THEN TimesTenths(7, score) ELSE score

\* An evidence row {ts, metric, value, detail}; the metric and the detail
\* of a breakdown row name the cause.
EvidenceRow(ts, cause, metric, value) ==
  [ts |-> ts, metric |-> [cause |-> cause, name |-> metric],
   value |-> value, detail |-> [metric |-> metric, value |-> value]]

\* `${row.ts.getTime()}|${row.metric}|${row.detail}`
EvidenceKey(row) == <<row.ts, row.metric, row.detail>>

\* appendEvidenceRow(target, seen, row): every row pushed has its key in
\* `seen`.  The rows the ranking builds have a Date, a finite value, a
\* metric and a detail.
appendEvidenceRow(target, row) ==
  IF \E k \in 1..Len(target) : EvidenceKey(target[k]) = EvidenceKey(row)
    THEN target
    ELSE Append(target, row)

\* `for (const row of rows) { if (out.length >= maxCount) break; ... }`
RECURSIVE AppendEvidenceRows(_, _, _, _)
AppendEvidenceRows(out, rows, i, maxCount) ==
  IF i > Len(rows) \/ Len(out) >= maxCount THEN out
  ELSE AppendEvidenceRows(appendEvidenceRow(out, rows[i]), rows, i + 1,
                          maxCount)

\* ensureEvidenceRows(primaryRows, fallbackRows, minCount, maxCount)
ensureEvidenceRows(primaryRows, fallbackRows, minCount, maxCount) ==
  LET first == AppendEvidenceRows(<<>>, primaryRows, 1, maxCount)
      out == IF Len(first) < minCount
               THEN AppendEvidenceRows(first, fallbackRows, 1, maxCount)
               ELSE first
  IN  SubSeq(out, 1, IF Len(out) < maxCount THEN Len(out) ELSE maxCount)

\* buildScoreBreakdownEvidence(referenceTs, cause, overlap, leadLag, intensity)
buildScoreBreakdownEvidence(ref, cause, in) ==
  IF ref = <<>> THEN <<>>
  ELSE <<EvidenceRow(ref[1], cause, "overlap", in.overlap),
         EvidenceRow(ref[1], cause, "lead_lag", in.leadLag),
         EvidenceRow(ref[1], cause, "intensity", in.intensity)>>

\* The fallback block of a cause: the rows drawn from samples, the
\* summary row when it has a value and referenceTs is set, the breakdown.
EvidenceFallback(ref, cause, in, rows) ==
  rows.fallback
    \o (IF rows.summary /\ ref # <<>>
          THEN <<EvidenceRow(ref[1], "", "p95", 0)>> ELSE <<>>)
    \o buildScoreBreakdownEvidence(ref, cause, in)

\* The row pushed for one cause.
RankingRow(cause, in, isDegraded) ==
  LET score == computeScore(in.overlap, in.leadLag, in.intensity)
  IN  [cause |-> cause,
       score |-> AdjustedScore(score, isDegraded),
       overlap |-> in.overlap, leadLag |-> in.leadLag,
       intensity |-> in.intensity,
       level |-> scoreToLevel(AdjustedScore(score, isDegraded)),
       confidence |-> IF isDegraded THEN "low" ELSE scoreToLevel(score),
       evidence |-> ensureEvidenceRows(
                      evidenceRows[cause].primary,
                      EvidenceFallback(referenceTs, cause, in,
                                       evidenceRows[cause]),
                      3, 5)]

\* Overlap, lead/lag and intensity of a cause, each already clamped to
\* [0, 1] by the code that derives it.
CauseSignals ==
  {[overlap |-> o, leadLag |-> l, intensity |-> i] :
     o \in {0, One \div 2, One}, l \in {0, One}, i \in {0, (4 * One) \div 10}}

\* buildCauseRanking: one row per cause, then sorted by descending score.
buildCauseRanking ==
  /\ scorePc = "measured"
  /\ \E rows \in {[k \in 1..Len(Causes) |->
                      RankingRow(Causes[k], causeInputs[Causes[k]], degraded)]} :
       ranking' = SortBy(rows, [k \in 1..Len(rows) |-> 0 - rows[k].score])
  /\ scorePc' = "ranked"
  /\ UNCHANGED <<degraded, causeInputs, referenceTs, evidenceRows,
                 scoreFrame>>

NextScore == buildCauseRanking

InitScore ==
  /\ CaptureInit
  /\ win32 = FALSE
  /\ NoManifest
  /\ NoTee
  /\ NoFocus
  /\ NoScan
  /\ NoPingParse
  /\ NoDetection
  /\ NoReportOutput
  /\ createEventStore
  /\ EmptySnapshotFile
  /\ NoWindows
  /\ EmptyPingResult
  /\ degraded \in BOOLEAN
  /\ causeInputs \in [CauseNames -> CauseSignals]
  /\ referenceTs = <<>>
  /\ evidenceRows = [c \in CauseNames |-> NoEvidenceRows]
  /\ ranking = <<>>
  /\ scorePc = "measured"

\* The signals of the four causes, then the one call of buildCauseRanking.
SpecScore == InitScore /\ [][NextScore]_vars

\* The rows drawn from samples near the jitter points: their times and
\* values, under one metric.
SampleRows ==
  {EvidenceRow(ts, "", "sample", 5) : ts \in {1000, 2000}}

\* The evidence input of one cause.
EvidenceInputs ==
  [primary : SeqsUpTo(SampleRows, MaxPrimaryRows),
   fallback : SeqsUpTo({EvidenceRow(3000, "", "fallback", 5)}, 1),
   summary : BOOLEAN]

\* referenceTs is null when there is no ping sample, no app metric sample
\* and no anomaly event in the allowed phases.  One cause has evidence
\* input, the other three have none.
InitEvidence ==
  /\ CaptureInit
  /\ win32 = FALSE
  /\ NoManifest
  /\ NoTee
  /\ NoFocus
  /\ NoScan
  /\ NoPingParse
  /\ NoDetection
  /\ NoReportOutput
  /\ createEventStore
  /\ EmptySnapshotFile
  /\ NoWindows
  /\ EmptyPingResult
  /\ degraded \in BOOLEAN
  /\ causeInputs = [c \in CauseNames |-> NoSignal]
  /\ referenceTs \in {<<>>, <<1000>>}
  /\ \E c0 \in CauseNames, rows \in EvidenceInputs :
       evidenceRows = [c \in CauseNames |->
                         IF c = c0 THEN rows ELSE NoEvidenceRows]
  /\ ranking = <<>>
  /\ scorePc = "measured"

\* The evidence input of the causes, then the one call of
\* buildCauseRanking.
SpecEvidence == InitEvidence /\ [][NextScore]_vars

(* ----------------------- a run of the report phase ---------------------- *)
\* The years in which the report phase may run: the year of the capture
\* and the one after it.
Years == CaptureYear..(CaptureYear + 1)

IsLeapYear(y) == y % 4 = 0 /\ (y % 100 # 0 \/ y % 400 = 0)

\* A null Date.
NoDate == [year |-> 0, day |-> "", minute |-> 0]

\* The month-day stamps of the logcat lines of a capture.
LogDays == {"02-29", "03-01"}

\* A logcat line in threadtime format: "MM-DD HH:mm:ss.SSS ..." and the
\* event type classifyLogcatLine finds in it.  The line carries no year.
LogLines == [day : LogDays, minute : 0..MaxMinute, type : EventTypes]

\* The logcat files of a capture: a capture lasts minutes, all its lines
\* bear one day.
LogcatFiles ==
  {f \in SeqsUpTo(LogLines, MaxLogLines) :
     \A i, j \in DOMAIN f : f[i].day = f[j].day}

\* capture_meta.json written by the capture phase: absolute ISO instants.
CaptureMetas(day) ==
  {NoMeta} \cup
  {[present |-> TRUE,
    startedAtIso |-> [year |-> CaptureYear, day |-> day, minute |-> a],
    endedAtIso |-> [year |-> CaptureYear, day |-> day, minute |-> b]] :
     a \in 0..MaxMinute, b \in 0..MaxMinute}

\* parseThreadtimeDate(line, yearHint): the text `${yearHint}-MM-DD time`
\* parsed strictly; null when that date does not exist.
parseThreadtimeDate(line, yearHint) ==
  IF line.day = "02-29" /\ ~IsLeapYear(yearHint)
    THEN NoDate
    ELSE [year |-> yearHint, day |-> line.day, minute |-> line.minute]

\* parseIsoDateSafe(text): the instant of an ISO string, null for none.
parseIsoDateSafe(json, field) ==
  IF json.present THEN json[field] ELSE NoDate

\* formatMinuteKey(d): the text "YYYY-MM-DD HH:mm", as its fields.
formatMinuteKey(d) == <<d.year, d.day, d.minute>>

\* parseLogcatFile(logcatPath, store, yearHint): every line is counted, a
\* line without a parsable date is skipped, the others give an event.
ParsedLines(yearHint) ==
  SelectSeq([k \in 1..Len(logcat) |->
               [type |-> logcat[k].type,
                ts |-> parseThreadtimeDate(logcat[k], yearHint)]],
            LAMBDA e : e.ts # NoDate)

FirstTs(parsed) ==
  IF parsed = <<>> THEN NoDate
  ELSE CHOOSE t \in {parsed[k].ts : k \in DOMAIN parsed} :
         \A k \in DOMAIN parsed : t.minute <= parsed[k].ts.minute

LastTs(parsed) ==
  IF parsed = <<>> THEN NoDate
  ELSE CHOOSE t \in {parsed[k].ts : k \in DOMAIN parsed} :
         \A k \in DOMAIN parsed : t.minute >= parsed[k].ts.minute

parseLogcatFile(yearHint) ==
  LET parsed == ParsedLines(yearHint)
  IN [lineCount |-> Len(logcat), events |-> parsed,
      firstTs |-> FirstTs(parsed), lastTs |-> LastTs(parsed)]

\* a || b on Dates.
OrElse(a, b) == IF a # NoDate THEN a ELSE b

\* buildMinuteRange(startDate, endDate): the minutes from start to end,
\* none for an invalid date.  Both dates lie on one day here.
buildMinuteRange(startDate, endDate) ==
  IF startDate = NoDate \/ endDate = NoDate THEN <<>>
  ELSE [k \in 1..Max(0, endDate.minute - startDate.minute + 1) |->
          [startDate EXCEPT !.minute = startDate.minute + k - 1]]

\* buildTimeline({startTs, endTs, events}).csv: one row per minute of the
\* range, with the count of the events of each column in that minute; an
\* event whose minute key is not of the range counts in no row.
buildTimeline(startTs, endTs, evs) ==
  LET minuteList == buildMinuteRange(startTs, endTs)
  IN [k \in 1..Len(minuteList) |->
        [minute |-> formatMinuteKey(minuteList[k]),
         counts |-> [t \in EventTypes |->
                       Cardinality({i \in DOMAIN evs :
                          /\ evs[i].type = t
                          /\ formatMinuteKey(evs[i].ts) =
                               formatMinuteKey(minuteList[k])})]]]

\* What one run writes: timeline.csv and analysis_meta.json.
ReportOutput(yearHint, generatedAt) ==
  LET logcatStats == parseLogcatFile(yearHint)
      startTs == OrElse(parseIsoDateSafe(captureMeta, "startedAtIso"),
                        logcatStats.firstTs)
      endTs == OrElse(parseIsoDateSafe(captureMeta, "endedAtIso"),
                      OrElse(logcatStats.lastTs, startTs))
  IN [timelineCsv |-> buildTimeline(startTs, endTs, logcatStats.events),
      analysisMeta |->
        [generatedAtIso |-> generatedAt,
         eventsTotalAll |-> Len(logcatStats.events),
         logcatLineCount |-> logcatStats.lineCount]]

\* runReportFromCli: the year hint of every parser is the year of the run;
\* the run does not write the files it reads.
runReportFromCli ==
  /\ Len(outputs) < MaxRuns
  /\ outputs' = Append(outputs, ReportOutput(now.year, now))
  /\ now' = [now EXCEPT !.tick = @ + 1]
  /\ UNCHANGED <<logcat, captureMeta, runFrame>>

\* Time passes between two runs: the calendar year changes.
YearChanges ==
  /\ now.year + 1 \in Years
  /\ now' = [year |-> now.year + 1, tick |-> 0]
  /\ UNCHANGED <<logcat, captureMeta, outputs, runFrame>>

NextReport == runReportFromCli \/ YearChanges

InitReport ==
  /\ CaptureInit
  /\ win32 = FALSE
  /\ NoManifest
  /\ NoTee
  /\ NoFocus
  /\ NoScan
  /\ NoPingParse
  /\ NoDetection
  /\ createEventStore
  /\ EmptySnapshotFile
  /\ NoWindows
  /\ EmptyPingResult
  /\ NoRanking
  /\ \E day \in LogDays :
       /\ logcat \in {f \in LogcatFiles : \A i \in DOMAIN f : f[i].day = day}
       /\ captureMeta \in CaptureMetas(day)
  /\ now = [year |-> CaptureYear, tick |-> 0]
  /\ outputs = <<>>

\* One capture directory, analysed up to MaxRuns times.
SpecReport == InitReport /\ [][NextReport]_vars

(* --------------------------- stream detector ---------------------------- *)
\* The times of the streaming-client lines; logcat does not promise them
\* in ascending order.
StreamTimes == {0, 2 * MERGE_GAP_MS, 3 * MERGE_GAP_MS, 5 * MERGE_GAP_MS}

\* The marker classes of a line, by the regular expressions its payload
\* matches: every strong start pattern is also an activity pattern.
LineKinds ==
  {[strongStart |-> TRUE, midStart |-> FALSE, weakStart |-> FALSE,
    endMarker |-> FALSE, isStreamActivity |-> TRUE],
   [strongStart |-> FALSE, midStart |-> FALSE, weakStart |-> TRUE,
    endMarker |-> FALSE, isStreamActivity |-> FALSE],
   [strongStart |-> FALSE, midStart |-> FALSE, weakStart |-> FALSE,
    endMarker |-> FALSE, isStreamActivity |-> TRUE],
   [strongStart |-> FALSE, midStart |-> FALSE, weakStart |-> FALSE,
    endMarker |-> TRUE, isStreamActivity |-> FALSE]}

StreamLines ==
  {[ts |-> t, strongStart |-> k.strongStart, midStart |-> k.midStart,
    weakStart |-> k.weakStart, endMarker |-> k.endMarker,
    isStreamActivity |-> k.isStreamActivity] :
     t \in StreamTimes, k \in LineKinds}

Modes == {"auto", "strict", "all"}

HasStart(line) == line.strongStart \/ line.midStart \/ line.weakStart

\* The window object a start marker creates.
NewWindow(ts) ==
  [startTs |-> ts, endTs |-> ts, hasStrongStart |-> FALSE,
   hasStartMarker |-> FALSE, hasEndMarker |-> FALSE,
   startMarkerCount |-> 0, endMarkerCount |-> 0, activityCount |-> 0]

\* appendWindow(list, window): endTs is raised to startTs, then push.
appendWindow(list, window) ==
  Append(list, IF window.endTs < window.startTs
                 THEN [window EXCEPT !.endTs = window.startTs]
                 ELSE window)

\* The start marker finds a current window that it closes.
StartSplits_Inclusive(cur, ts) == ts - cur.endTs >= MERGE_GAP_MS
StartSplits(cur, ts) == ts - cur.endTs > MERGE_GAP_MS

\* if (hasStart) { ... }: the current window and the closed list after it.
AfterStart(cur, list, line) ==
  IF ~HasStart(line) THEN [current |-> cur, list |-> list]
  ELSE LET opened ==
             IF cur = <<>> THEN [current |-> NewWindow(line.ts), list |-> list]
             ELSE IF StartSplits(cur[1], line.ts)
               THEN [current |-> NewWindow(line.ts),
                     list |-> appendWindow(list, cur[1])]
             ELSE [current |-> cur[1], list |-> list]
       IN [current |->
             <<[opened.current EXCEPT
                  !.hasStartMarker = TRUE,
                  !.hasStrongStart = @ \/ line.strongStart,
                  !.startMarkerCount = @ + 1,
                  !.endTs = line.ts]>>,
           list |-> opened.list]

\* if (current && isStreamActivity) { ... }
AfterActivity(st, line) ==
  IF st.current # <<>> /\ line.isStreamActivity
    THEN [st EXCEPT !.current =
            <<[st.current[1] EXCEPT !.activityCount = @ + 1,
                                    !.endTs = line.ts]>>]
    ELSE st

\* The end marker leaves no window current.
AfterClose_Kept(w) == <<w>>
AfterClose(w) == <<>>

\* if (current && endMarker) { ... }
AfterEnd(st, line) ==
  IF st.current # <<>> /\ line.endMarker
    THEN LET w == [st.current[1] EXCEPT !.hasEndMarker = TRUE,
                                        !.endMarkerCount = @ + 1,
                                        !.endTs = line.ts]
         IN [current |-> AfterClose(w), list |-> appendWindow(st.list, w)]
    ELSE st

\* One iteration of the for-await loop on a line that has a date and looks
\* like a streaming-client line (the markerCounts and markerExamples, which
\* no decision reads, are left out).
ProcessLine(line) ==
  /\ detPc = "reading"
  /\ linesRead < MaxStreamLines
  /\ \E st \in {AfterEnd(AfterActivity(AfterStart(current, parsedWindows, line),
                                       line), line)} :
       /\ current' = st.current
       /\ parsedWindows' = st.list
  /\ linesRead' = linesRead + 1
  /\ lastLine' = line
  /\ UNCHANGED <<detection, resolved, detPc, detFrame>>

\* mergeWindowPair(prev, next)
mergeWindowPair(prev, next) ==
  [startTs |-> IF prev.startTs < next.startTs THEN prev.startTs
               ELSE next.startTs,
   endTs |-> IF prev.endTs > next.endTs THEN prev.endTs ELSE next.endTs,
   hasStrongStart |-> prev.hasStrongStart \/ next.hasStrongStart,
   hasStartMarker |-> prev.hasStartMarker \/ next.hasStartMarker,
   hasEndMarker |-> prev.hasEndMarker \/ next.hasEndMarker,
   startMarkerCount |-> prev.startMarkerCount + next.startMarkerCount,
   endMarkerCount |-> prev.endMarkerCount + next.endMarkerCount,
   activityCount |-> prev.activityCount + next.activityCount]

\* The merge test of the loop over the sorted windows.
MergesWithLast_Never(last, w) == FALSE
MergesWithLast(last, w) == w.startTs - last.endTs < MERGE_GAP_MS

RECURSIVE MergeParsed(_, _)
MergeParsed(ws, n) ==
  IF n = 0 THEN <<>>
  ELSE LET merged == MergeParsed(ws, n - 1)
           w == ws[n]
       IN IF merged = <<>> THEN <<w>>
          ELSE IF MergesWithLast(merged[Len(merged)], w)
            THEN [merged EXCEPT ![Len(merged)] = mergeWindowPair(@, w)]
          ELSE Append(merged, w)

\* scoreWindow(window, mode): the score in hundredths, and valid.
BaseValid(window) ==
  /\ window.hasStartMarker
  /\ (window.hasStrongStart
        \/ window.activityCount >= MIN_VALID_ACTIVITY_COUNT)
  /\ Max(0, window.endTs - window.startTs) >= MIN_VALID_DURATION_MS

scoreWindow(window, mode) ==
  LET startScore == IF window.hasStartMarker THEN 20 ELSE 0
      strongScore == IF window.hasStrongStart THEN 40 ELSE 0
      perActivity == 5 * window.activityCount
      activityScore == IF perActivity < 30 THEN perActivity ELSE 30
      endScore == IF window.hasEndMarker THEN 10 ELSE 0
      total == startScore + strongScore + activityScore + endScore
  IN [score |-> IF total < 100 THEN total ELSE 100,
      valid |-> IF mode = "strict"
                  THEN BaseValid(window) /\ window.hasStrongStart
                  ELSE BaseValid(window)]

\* out.windows: the merged windows with id, score and valid.
ScoredWindows(merged, mode) ==
  [k \in 1..Len(merged) |->
     [id |-> k, startTs |-> merged[k].startTs, endTs |-> merged[k].endTs,
      hasStrongStart |-> merged[k].hasStrongStart,
      hasStartMarker |-> merged[k].hasStartMarker,
      hasEndMarker |-> merged[k].hasEndMarker,
      startMarkerCount |-> merged[k].startMarkerCount,
      endMarkerCount |-> merged[k].endMarkerCount,
      activityCount |-> merged[k].activityCount,
      score |-> scoreWindow(merged[k], mode).score,
      valid |-> scoreWindow(merged[k], mode).valid]]

\* What detectStreamingPhases returns once the input has ended.
DetectionOf(closed, mode) ==
  IF closed = <<>>
    THEN [EmptyDetection EXCEPT !.mode = mode, !.degraded = (mode # "all"),
                                !.reason = "no_markers"]
  ELSE LET sorted == SortBy(closed, StartsOf(closed))
           windows == ScoredWindows(MergeParsed(sorted, Len(sorted)), mode)
           validWs == SelectSeq(windows, LAMBDA w : w.valid)
       IN [mode |-> mode, windows |-> windows, validWindows |-> validWs,
           detected |-> validWs # <<>>,
           degraded |-> (mode # "all" /\ validWs = <<>>),
           reason |-> IF validWs # <<>> THEN "" ELSE "no_valid_window",
           effectiveWindows |-> <<>>]

\* End of the input: the current window is closed, the windows are sorted,
\* merged and scored.  The mode option is read only here.
FinishDetection(mode) ==
  /\ detPc = "reading"
  /\ \E closed \in {IF current # <<>>
                      THEN appendWindow(parsedWindows, current[1])
                      ELSE parsedWindows} :
       /\ parsedWindows' = closed
       /\ detection' = DetectionOf(closed, mode)
  /\ detPc' = "detected"
  /\ UNCHANGED <<current, linesRead, lastLine, resolved, detFrame>>

\* The options of buildEffectiveWindows at their defaults; the capture
\* range covers the lines.
DetectorOpts ==
  [preBufferSec |-> 5, postBufferSec |-> 10, clockSkewToleranceSec |-> 2,
   minTs |-> 0, maxTs |-> 5 * MERGE_GAP_MS]

\* runReportFromCli: streamDetection.effectiveWindows = buildEffectiveWindows(...)
AssignEffectiveWindows ==
  /\ detPc = "detected"
  /\ detection' = [detection EXCEPT !.effectiveWindows =
                     buildEffectiveWindows(detection.validWindows,
                                           DetectorOpts)]
  /\ detPc' = "effective"
  /\ UNCHANGED <<current, parsedWindows, linesRead, lastLine, resolved,
                 detFrame>>

\* The timestamps whose phase is asked for.
PhaseTimes == StreamTimes \cup {2 * MERGE_GAP_MS + 1, 5 * MERGE_GAP_MS + 1}

AsPairs(ws) == [k \in 1..Len(ws) |-> <<ws[k].startTs, ws[k].endTs>>]

\* The loop of resolveStreamPhaseEx finds a valid window holding ms.
InValidWindow_Open(ms, ws) ==
  \E k \in 1..Len(ws) : ms > ws[k].startTs /\ ms < ws[k].endTs
InValidWindow(ms, ws) ==
  \E k \in 1..Len(ws) : ms >= ws[k].startTs /\ ms <= ws[k].endTs

\* resolveStreamPhaseEx(ts, detection) for a non-null ts.
resolveStreamPhaseEx(ms, det) ==
  LET validWs == det.validWindows
      effective == IF det.effectiveWindows # <<>> THEN det.effectiveWindows
                   ELSE validWs
      inSession == isTsInWindows(ms, AsPairs(effective))
  IN IF validWs = <<>>
       THEN [ts |-> ms, phase |-> "preconnect", inSession |-> FALSE]
     ELSE IF InValidWindow(ms, validWs)
       THEN [ts |-> ms, phase |-> "stream", inSession |-> inSession]
     ELSE IF ms < validWs[1].startTs
       THEN [ts |-> ms, phase |-> "preconnect", inSession |-> inSession]
     ELSE IF ms > validWs[Len(validWs)].endTs
       THEN [ts |-> ms, phase |-> "post", inSession |-> inSession]
     ELSE [ts |-> ms, phase |-> "unknown", inSession |-> inSession]

ResolvePhase(ms) ==
  /\ detPc = "effective"
  /\ resolved' = resolveStreamPhaseEx(ms, detection)
  /\ UNCHANGED <<current, parsedWindows, linesRead, lastLine, detection,
                 detPc, detFrame>>

NextDetect ==
  \/ \E line \in StreamLines : ProcessLine(line)
  \/ \E mode \in Modes : FinishDetection(mode)
  \/ AssignEffectiveWindows
  \/ \E ms \in PhaseTimes : ResolvePhase(ms)

InitDetect ==
  /\ CaptureInit
  /\ win32 = FALSE
  /\ NoManifest
  /\ NoTee
  /\ NoFocus
  /\ NoScan
  /\ NoPingParse
  /\ NoDetection
  /\ NoReportOutput
  /\ createEventStore
  /\ EmptySnapshotFile
  /\ NoWindows
  /\ EmptyPingResult
  /\ NoRanking

\* One pass of the detector over the stream lines of a logcat file, then
\* the phase of some timestamps.
SpecDetect == InitDetect /\ [][NextDetect]_vars

(* ------------------- dumpsys snapshots: transitions --------------------- *)
\* The services whose transition scans are modelled.
ScanServices == {"alarm", "deviceidle"}

\* parseAlarmState(body): pendingTotal and nextWakeupMs are <<>> for null.
AlarmStates ==
  [pendingTotal : {<<>>, <<0>>, <<8>>}, wakeupCount : {0, 3},
   nextWakeupMs : {<<>>, <<5000>>, <<40000>>}]

\* parseDeviceIdleState(body): dozeOn and idleOn, "null" when the body
\* names neither; the state itself is null when both are.
DeviceIdleStates == [dozeOn : {"true", "false", "null"},
                     idleOn : {"true", "false", "null"}]

StatesOf(service) ==
  IF service = "alarm" THEN AlarmStates ELSE DeviceIdleStates

\* `if (dozeOn == null && idleOn == null) return null`
StateIsNull(service, st) ==
  service = "deviceidle" /\ st.dozeOn = "null" /\ st.idleOn = "null"

\* The n-th snapshot of a file: its status, its host_ts (NoMs when
\* parseIsoDateSafe returns null) and the state its body parses to.
SnapshotsAt(service, n) ==
  [idx : {n}, status : {"OK", "TIMEOUT", "ERROR", "SKIPPED"},
   hostTs : {NoMs, MsPerSec * n}, state : StatesOf(service)]

\* The three `continue` of the loop: status, date, state.
Usable_AnyStatus(service, snap) ==
  /\ snap.hostTs # NoMs
  /\ ~StateIsNull(service, snap.state)
Usable(service, snap) ==
  /\ snap.status = "OK"
  /\ snap.hostTs # NoMs
  /\ ~StateIsNull(service, snap.state)

ScanEvent(type, ts) == [type |-> type, ts |-> ts]
When(cond, type, ts) == IF cond THEN <<ScanEvent(type, ts)>> ELSE <<>>

\* addAlarmTransitions: the addEvent calls of one snapshot, in order.
AlarmEvents(prev, cur, ts) ==
  When(cur.nextWakeupMs # <<>> /\ cur.nextWakeupMs[1] <= 5000,
       "ALARM_WAKEUP_SOON", ts)
  \o (IF prev = <<>> THEN <<>>
      ELSE When(/\ prev[1].pendingTotal # <<>>
                /\ cur.pendingTotal # <<>>
                /\ cur.pendingTotal[1] - prev[1].pendingTotal[1] >= 8,
                "ALARM_QUEUE_JUMP", ts)
           \o When(cur.wakeupCount - prev[1].wakeupCount >= 3,
                   "ALARM_WAKEUP_BURST", ts)
           \o When(/\ prev[1].nextWakeupMs # <<>>
                   /\ cur.nextWakeupMs # <<>>
                   /\ prev[1].nextWakeupMs[1] > 30000
                   /\ cur.nextWakeupMs[1] <= 30000,
                   "ALARM_WAKEUP_SOON", ts))

\* addDeviceIdleTransitions: the addEvent calls of one snapshot, in order.
DeviceIdleEvents(prev, cur, ts) ==
  IF prev = <<>> THEN <<>>
  ELSE When(prev[1].dozeOn = "false" /\ cur.dozeOn = "true", "DOZE_ENTER", ts)
       \o When(prev[1].dozeOn = "true" /\ cur.dozeOn = "false", "DOZE_EXIT", ts)
       \o When(prev[1].idleOn = "false" /\ cur.idleOn = "true", "IDLE_ENTER", ts)
       \o When(prev[1].idleOn = "true" /\ cur.idleOn = "false", "IDLE_EXIT", ts)

TransitionEvents(service, prev, cur, ts) ==
  IF service = "alarm" THEN AlarmEvents(prev, cur, ts)
  ELSE DeviceIdleEvents(prev, cur, ts)

\* One iteration of the loop over the snapshots of the file.  The events
\* are the calls of store.addEvent; the store keeps those that its
\* near-duplicate check accepts.
ScanSnapshot(snap) ==
  /\ scanIdx < MaxScan
  /\ snap.idx = scanIdx + 1
  /\ scanIdx' = scanIdx + 1
  /\ \E used \in {Usable(scanService, snap)} :
       /\ scanPrev' = IF used THEN <<snap>> ELSE scanPrev
       /\ lastScan' =
            [snap |-> <<snap>>, prev |-> scanPrev, ok |-> lastOk,
             usable |-> lastUsable,
             events |-> IF used
                          THEN TransitionEvents(
                                 scanService,
                                 IF scanPrev = <<>> THEN <<>>
                                 ELSE <<scanPrev[1].state>>,
                                 snap.state, snap.hostTs)
                          ELSE <<>>]
  /\ lastOk' = IF snap.status = "OK" THEN <<snap>> ELSE lastOk
  /\ lastUsable' =
       IF snap.status = "OK" /\ snap.hostTs # NoMs
            /\ ~StateIsNull(scanService, snap.state)
         THEN <<snap>> ELSE lastUsable
  /\ UNCHANGED <<scanService, scanFrame>>

NextScan ==
  \E snap \in SnapshotsAt(scanService, scanIdx + 1) : ScanSnapshot(snap)

InitScan ==
  /\ CaptureInit
  /\ win32 = FALSE
  /\ NoManifest
  /\ NoTee
  /\ NoFocus
  /\ NoPingParse
  /\ NoDetection
  /\ NoReportOutput
  /\ createEventStore
  /\ EmptySnapshotFile
  /\ NoWindows
  /\ EmptyPingResult
  /\ NoRanking
  /\ scanService \in ScanServices
  /\ scanIdx = 0
  /\ scanPrev = <<>>
  /\ lastOk = <<>>
  /\ lastUsable = <<>>
  /\ lastScan = [snap |-> <<>>, prev |-> <<>>, ok |-> <<>>,
                 usable |-> <<>>, events |-> <<>>]

\* The snapshots of one dumpsys log, read in file order.
SpecScan == InitScan /\ [][NextScan]_vars

(* --------------------- app focus: the drop decisions -------------------- *)
\* The values of --noise-policy.
NoisePolicies == {"balanced", "aggressive", "conservative"}

\* shouldSuppressPollNoise(noisePolicy, phase, isPollNoise)
shouldSuppressPollNoise_AsOnePolicy(policy, phase, isPollNoise) ==
  isPollNoise /\ ~(policy = "conservative" /\ phase = "stream")
shouldSuppressPollNoise(policy, phase, isPollNoise) ==
  IF ~isPollNoise THEN FALSE
  ELSE IF policy = "conservative" THEN FALSE
  ELSE IF policy = "aggressive" THEN TRUE
  ELSE phase # "stream"

\* The lines of the streaming client in a logcat file: their times lie
\* before, inside and after the valid window; the message matches
\* POLL_NOISE_REGEX, APP_NOISE_REGEX, and carries a metric, an anomaly, a
\* session marker or an app warning (highValue), or not.
FocusLines ==
  [ts : {0, 2 * MERGE_GAP_MS, 5 * MERGE_GAP_MS}, pollNoise : BOOLEAN,
   appNoise : BOOLEAN, highValue : BOOLEAN]

\* What the loop of parseAppFocusLog does with a line of the given phase.
FocusOutcome(policy, phase, line) ==
  IF shouldSuppressPollNoise(policy, phase, line.pollNoise)
    THEN "preconnect_poll_noise"
  ELSE IF line.appNoise THEN "app_known_noise"
  ELSE IF line.highValue THEN "kept"
  ELSE "non_high_value"

\* One iteration of the loop of parseAppFocusLog over a matched line.
ReadFocusLine(line) ==
  /\ keptLineCount + droppedByReason.preconnect_poll_noise
       + droppedByReason.app_known_noise + droppedByReason.non_high_value
       < MaxFocusLines
  /\ \E phase \in {resolveStreamPhaseEx(line.ts, detection).phase} :
     \E outcome \in {FocusOutcome(noisePolicy, phase, line)} :
       /\ lastFocus' = [line |-> line, phase |-> phase, outcome |-> outcome]
       /\ keptLineCount' =
            IF outcome = "kept" THEN keptLineCount + 1 ELSE keptLineCount
       /\ droppedByReason' =
            IF outcome = "kept" THEN droppedByReason
            ELSE [droppedByReason EXCEPT ![outcome] = @ + 1]
  /\ UNCHANGED <<noisePolicy, focusFrame>>

NextFocus == \E line \in FocusLines : ReadFocusLine(line)

\* The detection of the run: no valid window, or one from 10 s to 40 s
\* with its effective window.
FocusDetections ==
  {EmptyDetection}
  \cup {[EmptyDetection EXCEPT
           !.windows = ws, !.validWindows = ws, !.detected = TRUE,
           !.effectiveWindows = buildEffectiveWindows(ws, DetectorOpts)] :
          ws \in {<<[id |-> 1, startTs |-> MERGE_GAP_MS,
                    endTs |-> 4 * MERGE_GAP_MS]>>}}

InitFocus ==
  /\ CaptureInit
  /\ win32 = FALSE
  /\ NoManifest
  /\ NoTee
  /\ NoScan
  /\ NoPingParse
  /\ NoReportOutput
  /\ createEventStore
  /\ EmptySnapshotFile
  /\ NoWindows
  /\ EmptyPingResult
  /\ NoRanking
  /\ current = <<>>
  /\ parsedWindows = <<>>
  /\ linesRead = 0
  /\ lastLine = NoLine
  /\ detection \in FocusDetections
  /\ resolved = NoPhase
  /\ detPc = "effective"
  /\ noisePolicy \in NoisePolicies
  /\ keptLineCount = 0
  /\ droppedByReason = [preconnect_poll_noise |-> 0, app_known_noise |-> 0,
                        non_high_value |-> 0]
  /\ lastFocus = [line |-> NoFocusLine, phase |-> "", outcome |-> ""]

\* The matched lines of a logcat file, read in order under one policy.
SpecFocus == InitFocus /\ [][NextFocus]_vars

(* ------------------ capture: the prefixing tee of a child --------------- *)
\* The characters of a child's output: a letter, the first character of
\* a line that already bears the [ts_local=...][epoch_ms=...] prefix, and
\* the two characters of a line end.
CR == "\r"
LF == "\n"
TeeChars == {"a", "[", CR, LF}

\* The chunks of the 'data' events.
TeeChunks == SeqsUpTo(TeeChars, MaxChunk)

\* text.split(/\r?\n/): the pieces between the separators; `cur` is the
\* piece being read.  A separator takes one "\r" before its "\n".
RECURSIVE SplitFrom(_, _, _)
SplitFrom(text, i, cur) ==
  IF i > Len(text) THEN <<cur>>
  ELSE IF text[i] = LF
    THEN <<IF cur # <<>> /\ cur[Len(cur)] = CR
             THEN SubSeq(cur, 1, Len(cur) - 1) ELSE cur>>
         \o SplitFrom(text, i + 1, <<>>)
  ELSE SplitFrom(text, i + 1, Append(cur, text[i]))

SplitLines(text) == SplitFrom(text, 1, <<>>)

\* PREFXED_LOG_LINE_REGEX.test(line)
IsPrefixedLine(line) == line # <<>> /\ line[1] = "["

\* writePrefixedLogLine(stream, rawLine, ...): nothing for an empty line,
\* the line as it is when it bears the prefix, else the line stamped.
writePrefixedLogLine(out, line) ==
  IF line = <<>> THEN out
  ELSE Append(out, [line |-> line, stamped |-> ~IsPrefixedLine(line)])

RECURSIVE WriteLines(_, _, _)
WriteLines(out, lines, n) ==
  IF n = 0 THEN out
  ELSE writePrefixedLogLine(WriteLines(out, lines, n - 1), lines[n])

\* flushLines(buffer, chunk, writer): what is kept for the next chunk.
Remain_Dropped(lines) == <<>>
Remain(lines) == lines[Len(lines)]

\* proc.stdout.on('data', chunk)
OnData(chunk) ==
  /\ teePc = "open"
  /\ Len(teeOutput) + Len(chunk) <= MaxOutput
  /\ teeOutput' = teeOutput \o chunk
  /\ \E lines \in {SplitLines(stdoutBuffer \o chunk)} :
       /\ teeWritten' = WriteLines(teeWritten, lines, Len(lines) - 1)
       /\ stdoutBuffer' = Remain(lines)
  /\ UNCHANGED <<teePc, teeFrame>>

\* proc.stdout.on('end')
OnEnd ==
  /\ teePc = "open"
  /\ teePc' = "ended"
  /\ teeWritten' = IF stdoutBuffer # <<>>
                     THEN writePrefixedLogLine(teeWritten, stdoutBuffer)
                     ELSE teeWritten
  /\ stdoutBuffer' = <<>>
  /\ UNCHANGED <<teeOutput, teeFrame>>

NextTee ==
  \/ \E chunk \in TeeChunks : OnData(chunk)
  \/ OnEnd

InitTee ==
  /\ CaptureInit
  /\ win32 = FALSE
  /\ NoManifest
  /\ NoFocus
  /\ NoScan
  /\ NoPingParse
  /\ NoDetection
  /\ NoReportOutput
  /\ createEventStore
  /\ EmptySnapshotFile
  /\ NoWindows
  /\ EmptyPingResult
  /\ NoRanking
  /\ teeOutput = <<>>
  /\ stdoutBuffer = <<>>
  /\ teeWritten = <<>>
  /\ teePc = "open"

\* The stdout of one child read in chunks until it ends.
SpecTee == InitTee /\ [][NextTee]_vars

(* ------------------ capture: the manifest on disk ----------------------- *)
\* JSON.stringify(obj, null, 2), in tokens: the opening brace, one token
\* per key with its value, the closing brace.
MetaKeys ==
  <<"stopReason", "stoppedAtIso", "endedAtIso", "durationSec",
    "parseExitCode">>

Stringify(obj) ==
  <<"{">> \o [k \in 1..Len(MetaKeys) |->
               [key |-> MetaKeys[k], value |-> obj[MetaKeys[k]]]]
          \o <<"}">>

\* JSON.parse(text) returns an object: a text cut short makes it throw.
Parses(text) ==
  /\ Len(text) >= 2
  /\ text[1] = "{"
  /\ text[Len(text)] = "}"
  /\ \A k \in 2..(Len(text) - 1) : text[k] \notin {"{", "}"}

\* The reasons of stop() and the exit codes of the report.
ManifestStopReasons == {"SIGINT", "duration_reached"}
ManifestExitCodes == {0, 1}

\* The object of the n-th write: createCaptureMeta at the start, the
\* stamps of stop() at the stop, parseExitCode after the report.
ManifestObjects(n, prev) ==
  IF n = 0 THEN {createCaptureMeta}
  ELSE IF n = 1
    THEN {[prev EXCEPT !.stopReason = r, !.stoppedAtIso = TRUE,
                       !.endedAtIso = TRUE, !.durationSec = TRUE] :
            r \in ManifestStopReasons}
  ELSE {[prev EXCEPT !.parseExitCode = c] : c \in ManifestExitCodes}

\* writeJson -> writeJsonSync -> fs.writeFileSync(file, text): the file is
\* opened with flag 'w', which creates it or truncates it to nothing.
OpenForWrite(text) == <<>>

OpenManifest ==
  /\ ~interrupted
  /\ writeRest = <<>>
  /\ writesDone < ManifestWrites
  /\ \E obj \in ManifestObjects(writesDone, diskMeta) :
       /\ diskMeta' = obj
       /\ writeRest' = Stringify(obj)
  /\ diskExists' = TRUE
  /\ diskText' = OpenForWrite(diskText)
  /\ UNCHANGED <<writesDone, interrupted, seenText, diskFrame>>

\* writeFileSync then loops over fs.writeSync until the text is written;
\* each call writes some of what is left, and the last one ends the write.
WriteSync(n) ==
  /\ ~interrupted
  /\ writeRest # <<>>
  /\ n \in 1..Len(writeRest)
  /\ diskText' = diskText \o SubSeq(writeRest, 1, n)
  /\ writeRest' = SubSeq(writeRest, n + 1, Len(writeRest))
  /\ writesDone' = IF n = Len(writeRest) THEN writesDone + 1 ELSE writesDone
  /\ UNCHANGED <<diskExists, diskMeta, interrupted, seenText, diskFrame>>

\* The process is killed (SIGKILL, power loss): nothing more is written.
Interrupt ==
  /\ ~interrupted
  /\ interrupted' = TRUE
  /\ UNCHANGED <<diskExists, diskText, writeRest, writesDone, diskMeta,
                 seenText, diskFrame>>

\* readJsonIfExists(files.captureMeta) of another process: the report run
\* on the output directory.
ReadManifest ==
  /\ diskExists
  /\ seenText' = <<diskText>>
  /\ UNCHANGED <<diskExists, diskText, writeRest, writesDone, diskMeta,
                 interrupted, diskFrame>>

NextManifest ==
  \/ OpenManifest
  \/ \E n \in 1..(Len(MetaKeys) + 2) : WriteSync(n)
  \/ Interrupt
  \/ ReadManifest

InitManifest ==
  /\ CaptureInit
  /\ win32 = FALSE
  /\ NoTee
  /\ NoFocus
  /\ NoScan
  /\ NoPingParse
  /\ NoDetection
  /\ NoReportOutput
  /\ createEventStore
  /\ EmptySnapshotFile
  /\ NoWindows
  /\ EmptyPingResult
  /\ NoRanking
  /\ diskExists = FALSE
  /\ diskText = <<>>
  /\ writeRest = <<>>
  /\ writesDone = 0
  /\ diskMeta = createCaptureMeta
  /\ interrupted = FALSE
  /\ seenText = <<>>

\* The manifest file through the three writes of a capture, with a reader
\* and an interruption at any point.
SpecManifest == InitManifest /\ [][NextManifest]_vars

(* ------------------ session membership of a timestamp ------------------- *)
\* Times on a grid of MIN_VALID_DURATION_MS.
SessionTimes == {MIN_VALID_DURATION_MS * t : t \in 0..MaxSessionStep}

SessionWindow(id, a, b) == [id |-> id, startTs |-> a, endTs |-> b]

\* The valid windows of a detection: none, one or two, each at least
\* MIN_VALID_DURATION_MS long, in order and more than MERGE_GAP_MS apart.
\* Their times are those of the device clock.
DetectedWindows ==
  {<<>>}
  \cup {<<SessionWindow(1, t[1], t[2])>> :
          t \in {u \in [1..2 -> SessionTimes] : u[1] < u[2]}}
  \cup {<<SessionWindow(1, t[1], t[2]), SessionWindow(2, t[3], t[4])>> :
          t \in {u \in [1..4 -> SessionTimes] :
                   u[1] < u[2] /\ u[2] + MERGE_GAP_MS < u[3] /\ u[3] < u[4]}}

\* The options of a report run: the buffers of the command line and the
\* capture range, startedAtIso / endedAtIso of the manifest (host clock)
\* or the first / last timestamp of the logcat file.
SessionOptions ==
  {[preBufferSec |-> pre, postBufferSec |-> post,
    clockSkewToleranceSec |-> skew, minTs |-> lo, maxTs |-> hi] :
     pre \in {0, 10}, post \in {0, 10}, skew \in {0, 2},
     lo \in SessionTimes, hi \in SessionTimes}

\* runReportFromCli: streamDetection.effectiveWindows = buildEffectiveWindows(...)
\* with the options of the run.
AssignSessionWindows ==
  /\ detPc = "detected"
  /\ detection' = [detection EXCEPT !.effectiveWindows =
                     buildEffectiveWindows(detection.validWindows, winOpts)]
  /\ detPc' = "effective"
  /\ UNCHANGED <<current, parsedWindows, linesRead, lastLine, resolved,
                 detFrame>>

NextSession ==
  \/ AssignSessionWindows
  \/ \E ms \in SessionTimes : ResolvePhase(ms)

InitSession ==
  /\ CaptureInit
  /\ win32 = FALSE
  /\ NoManifest
  /\ NoTee
  /\ NoFocus
  /\ NoScan
  /\ NoPingParse
  /\ NoReportOutput
  /\ createEventStore
  /\ EmptySnapshotFile
  /\ EmptyPingResult
  /\ NoRanking
  /\ validWindows = <<>>
  /\ winOpts \in SessionOptions
  /\ effectiveWindows = <<>>
  /\ winPc = "detected"
  /\ current = <<>>
  /\ parsedWindows = <<>>
  /\ linesRead = 0
  /\ lastLine = NoLine
  /\ \E ws \in DetectedWindows :
       detection = [EmptyDetection EXCEPT !.windows = ws,
                                          !.validWindows = ws,
                                          !.detected = (ws # <<>>)]
  /\ resolved = NoPhase
  /\ detPc = "detected"

\* A detection result and the options of a run, then the effective
\* windows and the phase of some timestamps.
SpecSession == InitSession /\ [][NextSession]_vars

(* ------------------------- ping log: the parse loop --------------------- *)
\* The intervalSec option in ms: the default 0.2 s, and 10 s.
PingIntervals == {200, 10000}

\* hostSideMatchWindowMs
hostSideMatchWindowMs == Max(MinMatchWindowMs, pingIntervalMs * 8)

\* The nping clock of a host-side line: the elapsed seconds of the line in
\* ms with the epoch of the prefix in step, or an elapsed text that is no
\* number with an epoch alone.  A host-side line always has its prefix.
HostClocks ==
  {[elapsedMs |-> t, epochMs |-> t] : t \in {0, 200, 250, 70000}}
    \cup {[elapsedMs |-> NoMs, epochMs |-> t] : t \in {0, 250}}

\* "SENT (1.2s) ICMP [... seq=N]" and "RCVD (1.2s) ICMP [... seq=N]".
HostSideLines ==
  {[kind |-> k, seq |-> s, elapsedMs |-> c.elapsedMs, epochMs |-> c.epochMs,
    bracketMs |-> NoMs, latencyMs |-> NoLatency] :
     k \in {"SENT", "RCVD"}, s \in Seqs, c \in HostClocks}

\* pushSample: the samples after a sample with a timestamp.
WithSample(list, ts, seq, success, latencyMs, status, tsSource, line) ==
  Append(list, [ts |-> ts, seq |-> seq, success |-> success,
                latencyMs |-> IF success THEN latencyMs ELSE NoLatency,
                status |-> status, tsSource |-> tsSource, line |-> line])

\* The SENT branch: a record is pushed and registered under its seq.
ReadSent(line) ==
  /\ parsePc = "reading"
  /\ line.kind = "SENT"
  /\ Len(hostSideSentRecords) + Len(parsedSamples) + skippedNoTsCount
       < MaxPingLines
  /\ hasHostSideSamples' = TRUE
  /\ hostSideSentRecords' =
       Append(hostSideSentRecords,
              [seq |-> line.seq, epochMs |-> line.epochMs,
               elapsedMs |-> line.elapsedMs, ts |-> line.epochMs,
               tsSource |-> "log_prefix_epoch", line |-> line,
               matched |-> FALSE])
  /\ hostSideSentBySeq' =
       [hostSideSentBySeq EXCEPT ![line.seq] = Len(hostSideSentRecords) + 1]
  /\ lastPing' = [line |-> line, sent |-> 0, recorded |-> FALSE]
  /\ UNCHANGED <<pingIntervalMs, captureStartTs, derivedSeq, parsedSamples,
                 skippedNoTsCount, parsePc, parseFrame>>

\* computeHostSideDeltaMs(sentRecord, rcvdElapsedMs, rcvdEpochMs); the
\* epochs of host-side lines are always known.
computeHostSideDeltaMs(sentRecord, rcvdElapsedMs, rcvdEpochMs) ==
  IF sentRecord.elapsedMs # NoMs /\ rcvdElapsedMs # NoMs
    THEN rcvdElapsedMs - sentRecord.elapsedMs
    ELSE rcvdEpochMs - sentRecord.epochMs

DeltaOf(i, line) ==
  computeHostSideDeltaMs(hostSideSentRecords[i], line.elapsedMs, line.epochMs)

\* bestDirect: the index of the SENT registered under the seq, when it is
\* unmatched and within the window; 0 for none.
BestDirect_NoLowerBound(line) ==
  LET i == hostSideSentBySeq[line.seq]
  IN IF /\ i # 0
        /\ ~hostSideSentRecords[i].matched
        /\ DeltaOf(i, line) <= hostSideMatchWindowMs
       THEN i ELSE 0
BestDirect(line) ==
  LET i == hostSideSentBySeq[line.seq]
  IN IF /\ i # 0
        /\ ~hostSideSentRecords[i].matched
        /\ DeltaOf(i, line) >= 0
        /\ DeltaOf(i, line) <= hostSideMatchWindowMs
       THEN i ELSE 0

\* bestByTime: the scan from the latest SENT record backwards.
RECURSIVE BestByTime_IgnoresMatched(_, _)
BestByTime_IgnoresMatched(i, line) ==
  IF i = 0 THEN 0
  ELSE IF DeltaOf(i, line) < 0 THEN BestByTime_IgnoresMatched(i - 1, line)
  ELSE IF DeltaOf(i, line) > hostSideMatchWindowMs THEN 0
  ELSE i
RECURSIVE BestByTime(_, _)
BestByTime(i, line) ==
  IF i = 0 THEN 0
  ELSE IF hostSideSentRecords[i].matched THEN BestByTime(i - 1, line)
  ELSE IF DeltaOf(i, line) < 0 THEN BestByTime(i - 1, line)
  ELSE IF DeltaOf(i, line) > hostSideMatchWindowMs THEN 0
  ELSE i

\* pickHostSideSentMatch: the index of the SENT that is marked matched, 0
\* for null.
pickHostSideSentMatch(line) ==
  LET bestDirect == BestDirect(line)
      bestByTime == BestByTime(Len(hostSideSentRecords), line)
  IN IF bestDirect # 0 /\ bestByTime # 0
       THEN IF DeltaOf(bestByTime, line) <= DeltaOf(bestDirect, line)
              THEN bestByTime ELSE bestDirect
     ELSE IF bestDirect # 0 THEN bestDirect
     ELSE bestByTime

\* The RCVD branch: the match, then the reply sample.
ReadRcvd(line) ==
  /\ parsePc = "reading"
  /\ line.kind = "RCVD"
  /\ Len(hostSideSentRecords) + Len(parsedSamples) + skippedNoTsCount
       < MaxPingLines
  /\ hasHostSideSamples' = TRUE
  /\ \E best \in {pickHostSideSentMatch(line)} :
       /\ hostSideSentRecords' =
            IF best = 0 THEN hostSideSentRecords
            ELSE [hostSideSentRecords EXCEPT ![best].matched = TRUE]
       /\ hostSideSentBySeq' =
            IF best # 0
                 /\ hostSideSentBySeq[hostSideSentRecords[best].seq] = best
              THEN [hostSideSentBySeq EXCEPT
                      ![hostSideSentRecords[best].seq] = 0]
              ELSE hostSideSentBySeq
       /\ parsedSamples' =
            WithSample(parsedSamples, line.epochMs,
                       IF best # 0 THEN hostSideSentRecords[best].seq
                       ELSE line.seq,
                       TRUE,
                       IF best # 0
                            /\ DeltaOf(best, line) <= HOST_SIDE_MAX_LATENCY_MS
                         THEN DeltaOf(best, line) ELSE NoLatency,
                       "reply", "log_prefix_epoch", line)
       /\ lastPing' = [line |-> line, sent |-> best, recorded |-> TRUE]
  /\ UNCHANGED <<pingIntervalMs, captureStartTs, derivedSeq,
                 skippedNoTsCount, parsePc, parseFrame>>

\* A SENT record is emitted as no_reply at the end of the input.
EmittedAtEnd_All(rec) == TRUE
EmittedAtEnd(rec) == ~rec.matched

RECURSIVE WithNoReplies(_, _)
WithNoReplies(list, n) ==
  IF n = 0 THEN list
  ELSE LET rec == hostSideSentRecords[n]
           before == WithNoReplies(list, n - 1)
       IN IF EmittedAtEnd(rec)
            THEN WithSample(before, rec.ts, rec.seq, FALSE, NoLatency,
                            "no_reply", rec.tsSource, rec.line)
            ELSE before

SampleTs(xs) == [i \in 1..Len(xs) |-> xs[i].ts]

\* The end of the input: the unmatched SENT records become no_reply
\* samples, then the samples are sorted by time.
EndOfInput ==
  /\ parsePc = "reading"
  /\ \E all \in {IF hasHostSideSamples
                   THEN WithNoReplies(parsedSamples, Len(hostSideSentRecords))
                   ELSE parsedSamples} :
       parsedSamples' = SortBy(all, SampleTs(all))
  /\ parsePc' = "done"
  /\ UNCHANGED <<pingIntervalMs, captureStartTs, hostSideSentRecords,
                 hostSideSentBySeq, hasHostSideSamples, derivedSeq,
                 skippedNoTsCount, lastPing, parseFrame>>

NextHostSide ==
  \/ \E line \in HostSideLines : ReadSent(line)
  \/ \E line \in HostSideLines : ReadRcvd(line)
  \/ EndOfInput

InitHostSide ==
  /\ CaptureInit
  /\ win32 = FALSE
  /\ NoManifest
  /\ NoTee
  /\ NoFocus
  /\ NoScan
  /\ NoDetection
  /\ NoReportOutput
  /\ createEventStore
  /\ EmptySnapshotFile
  /\ NoWindows
  /\ EmptyPingResult
  /\ NoRanking
  /\ pingIntervalMs \in PingIntervals
  /\ captureStartTs = NoMs
  /\ hostSideSentRecords = <<>>
  /\ hostSideSentBySeq = [s \in Seqs |-> 0]
  /\ hasHostSideSamples = FALSE
  /\ derivedSeq = 0
  /\ parsedSamples = <<>>
  /\ skippedNoTsCount = 0
  /\ lastPing = [line |-> NoPingLine, sent |-> 0, recorded |-> FALSE]
  /\ parsePc = "reading"

\* One host-side ping log (nping SENT and RCVD lines) parsed to its end.
SpecHostSide == InitHostSide /\ [][NextHostSide]_vars

\* A device ping line that gives a sample: a seq, a reply time or both
\* (SUCCESS_WITH_SEQ_REGEX, SUCCESS_NO_SEQ_REGEX, SEQ_ONLY_REGEX), with or
\* without the epoch_ms prefix and the bracketed time of ping -D.
DeviceLines ==
  {l \in [kind : {"DEVICE"}, seq : {NoSeq} \cup Seqs, elapsedMs : {NoMs},
          epochMs : {NoMs, 5000}, bracketMs : {NoMs, 7000},
          latencyMs : {NoLatency, 10}] :
     l.seq # NoSeq \/ l.latencyMs # NoLatency}

\* The seq of the sample: that of the line, or the next derived one.
DeviceSeq(line) == IF line.seq # NoSeq THEN line.seq ELSE derivedSeq + 1

\* The timestamp of a device line and its source.
DeviceTs_BracketFirst(line, seq) ==
  IF line.bracketMs # NoMs
    THEN [ts |-> line.bracketMs, tsSource |-> "ping_D"]
  ELSE IF line.epochMs # NoMs
    THEN [ts |-> line.epochMs, tsSource |-> "log_prefix_epoch"]
  ELSE [ts |-> NoMs, tsSource |-> "unknown"]
DeviceTs(line, seq) ==
  IF line.epochMs # NoMs
    THEN [ts |-> line.epochMs, tsSource |-> "log_prefix_epoch"]
  ELSE IF line.bracketMs # NoMs
    THEN [ts |-> line.bracketMs, tsSource |-> "ping_D"]
  ELSE IF captureStartTs # NoMs /\ seq # NoSeq
    THEN [ts |-> captureStartTs + (seq - 1) * pingIntervalMs,
          tsSource |-> "seq_estimated"]
  ELSE [ts |-> NoMs, tsSource |-> "unknown"]

\* The device branch of the loop, with its call of pushSample.
ReadDevice(line) ==
  /\ parsePc = "reading"
  /\ Len(parsedSamples) + skippedNoTsCount < MaxPingLines
  /\ \E seq \in {DeviceSeq(line)} :
     \E at \in {DeviceTs(line, seq)} :
       /\ derivedSeq' = Max(derivedSeq, seq)
       /\ IF at.ts = NoMs
            THEN /\ skippedNoTsCount' = skippedNoTsCount + 1
                 /\ UNCHANGED parsedSamples
            ELSE /\ parsedSamples' =
                      WithSample(parsedSamples, at.ts, seq,
                                 line.latencyMs # NoLatency, line.latencyMs,
                                 IF line.latencyMs # NoLatency THEN "reply"
                                 ELSE "no_reply",
                                 at.tsSource, line)
                 /\ UNCHANGED skippedNoTsCount
       /\ lastPing' = [line |-> line, sent |-> 0, recorded |-> at.ts # NoMs]
  /\ UNCHANGED <<pingIntervalMs, captureStartTs, hostSideSentRecords,
                 hostSideSentBySeq, hasHostSideSamples, parsePc, parseFrame>>

NextDevicePing ==
  \/ \E line \in DeviceLines : ReadDevice(line)
  \/ EndOfInput

InitDevicePing ==
  /\ CaptureInit
  /\ win32 = FALSE
  /\ NoManifest
  /\ NoTee
  /\ NoFocus
  /\ NoScan
  /\ NoDetection
  /\ NoReportOutput
  /\ createEventStore
  /\ EmptySnapshotFile
  /\ NoWindows
  /\ EmptyPingResult
  /\ NoRanking
  /\ pingIntervalMs \in PingIntervals
  /\ captureStartTs \in {NoMs, 1000}
  /\ hostSideSentRecords = <<>>
  /\ hostSideSentBySeq = [s \in Seqs |-> 0]
  /\ hasHostSideSamples = FALSE
  /\ derivedSeq = 0
  /\ parsedSamples = <<>>
  /\ skippedNoTsCount = 0
  /\ lastPing = [line |-> NoPingLine, sent |-> 0, recorded |-> FALSE]
  /\ parsePc = "reading"

\* One device ping log (ping lines) parsed to its end.
SpecDevicePing == InitDevicePing /\ [][NextDevicePing]_vars

(* -------------------------------- claims ------------------------------- *)
BusyFrame == SkippedFrame("reason=busy")
StoppingFrame == SkippedFrame("reason=stopping")
Count(seq, x) == Cardinality({i \in 1..Len(seq) : seq[i] = x})
TickOf(t) == stats'[t].runs = stats[t].runs + 1
QueueUnchanged ==
  pending' = pending /\ queued' = queued /\ runningTask' = runningTask

\* C1: whatever triggers arrive and in whatever order, stop() passes its
\* guard once: each child is sent the polite interrupt at most once, the
\* report is invoked at most once (exactly once by the time the process
\* exits after a successful startup), and the manifest keeps the stop
\* reason of the first trigger.
C1_ShutdownOnce ==
  /\ stopRuns <= 1
  /\ reportRuns <= 1
  /\ \A c \in Children : Count(sent[c], "SIGINT") <= 1
  /\ stopping => meta.stopReason = firstReason
  /\ metaFile.stopReason \notin {"null", "absent"}
       => metaFile.stopReason = firstReason
  /\ (pc = "exited" /\ startupOk) => (stopRuns = 1 /\ reportRuns = 1)

\* A run that ended after a fault arrived on top of an earlier trigger.
C1_Witness ==
  /\ pc = "exited"
  /\ startupOk
  /\ faultSeen
  /\ firstReason \in SignalReasons \cup {"duration_reached"}
  /\ metaFile.stopReason = firstReason

\* C2: at every moment at most one dumpsys invocation is queued or
\* executing, over all six pollers.
C2_AtMostOneInvocation ==
  /\ pending + Len(queued) <= 1
  /\ Cardinality(runningTask) = pending

\* A second poller ticked while an invocation was executing.
C2_Witness ==
  /\ pending = 1
  /\ \E t \in TaskNames : t \notin runningTask /\ stats[t].runs > 0

\* C3: a tick that finds the queue non-empty appends SKIPPED reason=busy
\* to its task's log, counts one skip, and leaves the queue as it was.
C3_BusyTickSkipped ==
  [][\A t \in TaskNames :
       (TickOf(t) /\ pending + Len(queued) > 0)
         => /\ log'[t] = Append(log[t], BusyFrame)
            /\ stats'[t].skipped = stats[t].skipped + 1
            /\ QueueUnchanged]_vars

\* A task was skipped as busy and the skip was counted.
C3_Witness ==
  \E t \in TaskNames :
    /\ Len(log[t]) = 1
    /\ log[t][1] = BusyFrame
    /\ stats[t].skipped = 1

\* C4: a tick that runs once the stopping flag is up appends SKIPPED
\* reason=stopping, counts one skip and returns; no step taken while the
\* flag is up starts or queues a dumpsys invocation.
C4_StoppingTickSkipped ==
  [][/\ \A t \in TaskNames :
          (TickOf(t) /\ stopping)
            => /\ log'[t] = Append(log[t], StoppingFrame)
               /\ stats'[t].skipped = stats[t].skipped + 1
               /\ QueueUnchanged
     /\ stopping => /\ pending' <= pending
                    /\ queued' = queued
                    /\ runningTask' \subseteq runningTask]_vars

\* A tick ran after the flag was raised, with the queue idle.
C4_Witness ==
  /\ stopping
  /\ pending = 0
  /\ \E t \in TaskNames : Count(log[t], StoppingFrame) > 0

\* C5: a child is sent a kill request only once shutdown has started,
\* every timer handle is cleared, and either the queue is idle or the 25 s
\* drain timer has fired.
C5_DrainBeforeKill ==
  (\E c \in Children : sent[c] # <<>>)
    => /\ stopping
       /\ \A t \in TaskNames : timer[t] = "cleared"
       /\ autoStop # "armed"
       /\ drainElapsed \/ (pending = 0 /\ queued = <<>>)
       /\ pc = "drain" => sleepMs = DrainWaitMs

\* The drain wait expired with an invocation still out; a child was then
\* interrupted.
C5_Witness ==
  /\ drainElapsed
  /\ pending = 1
  /\ sent["logcat"] # <<>>

\* C6 (as amended): each child gets the polite interrupt, a wait of at
\* most 3.5 s, then one forced stage followed by a wait of at most 1.5 s:
\* the tree kill on win32, the hard kill elsewhere.  A child that is still
\* alive when terminateSubprocess returns has been through both stages.
ForcedStage == IF win32 THEN "TASKKILL" ELSE "SIGKILL"

C6_StagedTermination ==
  /\ \A c \in Children :
       /\ sent[c] \in {<<>>, <<"SIGINT">>, <<"SIGINT", ForcedStage>>}
       /\ (termDone[c] /\ child[c] = "running")
            => sent[c] = <<"SIGINT", ForcedStage>>
  /\ (pc = "term" /\ termPc = "wait1")
       => (sleepMs = PoliteWaitMs /\ sent[CurChild] = <<"SIGINT">>)
  /\ (pc = "term" /\ termPc = "wait2")
       => (sleepMs = KillWaitMs /\ sent[CurChild] = <<"SIGINT", ForcedStage>>)

\* On win32 a child outlived the tree kill and its wait.
C6_Witness ==
  \E c \in Children :
    /\ termDone[c]
    /\ child[c] = "running"
    /\ sent[c] = <<"SIGINT", "TASKKILL">>

\* C6 (original): on every platform a child still alive after the
\* tree-kill wait has received the hard kill.
C6_HardKillEverywhere ==
  \A c \in Children :
    (termDone[c] /\ child[c] = "running") => Count(sent[c], "SIGKILL") = 1

\* C7: once shutdown has started the process exits, whether or not any
\* child exits and whether or not an outstanding invocation finishes.
C7_ShutdownCompletes == stopping ~> (pc = "exited")

\* C8: a run in which an uncaught exception or unhandled rejection reached
\* its handler exits with code 1.
C8_FaultExitsOne == (pc = "exited" /\ faultSeen) => finalCode = 1

\* C9: the report phase is invoked only after every spawned child has been
\* through terminateSubprocess, the streams are closed and the manifest
\* with stop reason, stop timestamp and duration is on disk; when the
\* process exits the manifest on disk carries parseExitCode.
C9_ReportAfterTeardown ==
  /\ reportRuns > 0
       => /\ \A c \in Children : child[c] # "none" => termDone[c]
          /\ streamsClosed
          /\ metaFile.stopReason = firstReason
          /\ firstReason # "null"
          /\ metaFile.stoppedAtIso
          /\ metaFile.durationSec
  /\ (pc = "exited" /\ startupOk)
       => (metaFile.parseExitCode # NoCode
           /\ metaFile.parseExitCode = meta.parseExitCode)

\* A full run with all three children ended with a failing report.
C9_Witness ==
  /\ pc = "exited"
  /\ \A c \in Children : termDone[c]
  /\ metaFile.parseExitCode = 2
  /\ metaFile.durationSec

C11_ProbeFailureIsStartupError ==
  (hostSideOn /\ probe \in ProbeResults \ {"ok"}) =>
    /\ pc = "exited"
    /\ finalCode = 1
    /\ ~startupOk
    /\ \A c \in Children : child[c] = "none" /\ sent[c] = <<>>
    /\ \A t \in TaskNames : timer[t] = "cleared" /\ log[t] = <<>>
    /\ autoStop = "cleared"
    /\ metaFile = NoFile

\* The last of the four probes failed with host-side ping enabled.
C11_Witness ==
  /\ hostSideOn
  /\ probe = "startProbe"
  /\ pc = "exited"

(* ------------------------------- C12 ----------------------------------- *)
FailureFrames == {ResultFrame("TIMEOUT"), ResultFrame("ERROR")}

\* The step appended a TIMEOUT / ERROR frame to the stream of task t.
FailureOf(t) ==
  /\ Len(log'[t]) = Len(log[t]) + 1
  /\ log'[t][Len(log'[t])] \in FailureFrames

\* C12: a dumpsys invocation that times out or fails is recorded in its own
\* task's stream (status TIMEOUT or ERROR, the error text in detail) and
\* counted in that task's timeout / error counter; nothing else of the run
\* changes: the run is not stopped, no timer is cleared, no child is
\* touched, the other tasks' counters and streams are untouched, and the
\* queue slot is released so that later ticks are served.
C12_FailureIsLocal ==
  [][\A t \in TaskNames : FailureOf(t) =>
       LET frame == log'[t][Len(log'[t])]
       IN  /\ frame[2] # ""
           /\ stats'[t].timeout
                 = stats[t].timeout + (IF frame[1] = "TIMEOUT" THEN 1 ELSE 0)
           /\ stats'[t].error
                 = stats[t].error + (IF frame[1] = "ERROR" THEN 1 ELSE 0)
           /\ stats'[t].ok = stats[t].ok
           /\ stats'[t].runs = stats[t].runs
           /\ \A u \in TaskNames \ {t} :
                 stats'[u] = stats[u] /\ log'[u] = log[u]
           /\ t \notin runningTask'
           /\ pending' + Len(queued') = pending + Len(queued) - 1
           /\ UNCHANGED <<pc, stopping, timer, autoStop, child, sent,
                          finalCode, firstReason, stopRuns>>
  ]_vars

\* An invocation of wifi failed, and a later tick of another poller was
\* handed to the queue while the run was still going.
C12_Witness ==
  /\ Count(log["wifi"], ResultFrame("ERROR")) > 0
  /\ "connectivity" \in runningTask
  /\ ~stopping
  /\ pc = "running"

(* ------------------------------- C13 ----------------------------------- *)
\* C13: whatever the order of insertion, a call of addEvent with a
\* tolerance T > 0 is accepted only if no event accepted before it for the
\* same type lies within T of its timestamp.
C13_AcceptedOnlyIfNoNeighbour ==
  [][(lastAdd'.n = lastAdd.n + 1 /\ lastAdd'.tol > 0 /\ lastAdd'.ret) =>
       \A k \in 1..Len(eventsByType[lastAdd'.type]) :
         Abs(lastAdd'.ts - eventsByType[lastAdd'.type][k]) > lastAdd'.tol
  ]_vars

(* ------------------------------- C14 ----------------------------------- *)
Ascending(seq) == \A i \in 1..(Len(seq) - 1) : seq[i] <= seq[i + 1]

\* Effective windows tried for the session arrays: none, or one window.
SessionWindows ==
  {<<>>} \cup {<<(<<a, b>>)>> : a \in Timestamps, b \in Timestamps}

\* C14: once the store is sorted, every per-type array handed on (the
\* store's own arrays, and the session arrays rebuilt from the events
\* inside the effective windows) is non-decreasing in ts.
C14_PerTypeArraysAscending ==
  storePc = "sorted" =>
    \A ty \in EventTypes :
      /\ Ascending(eventsByTypeAll[ty])
      /\ \A w \in SessionWindows : Ascending(eventsByTypeSession(w)[ty])

\* The store was sorted after an insertion that arrived out of order: the
\* last accepted timestamp is below another one of its type.
C14_Witness ==
  /\ storePc = "sorted"
  /\ lastAdd.ret
  /\ \E k \in 1..Len(eventsByType[lastAdd.type]) :
       eventsByType[lastAdd.type][k] > lastAdd.ts
  /\ Len(events) = MaxAdds

(* ------------------------------- C15 ----------------------------------- *)
\* The record a written snapshot is expected to come back as; its body is
\* the line sequence the writer put between the header and the end marker.
WrittenRecord(snap) ==
  [hostTs |-> snap.hostTs, task |-> snap.taskName, status |-> snap.status,
   durationMs |-> snap.durationMs, bodyLines |-> BodyWritten(snap.payload)]

\* C15: parsing a file of N written snapshots yields exactly N records,
\* the i-th with the hostTs, task, status, durationMs and body lines of
\* the i-th written snapshot.
C15_SnapshotRoundTrip ==
  LET parsed == parseSnapshotFile(snapFile)
  IN  /\ Len(parsed) = Len(snapshots)
      /\ \A i \in 1..Len(snapshots) : parsed[i] = WrittenRecord(snapshots[i])

(* ------------------------------- C16 ----------------------------------- *)
\* Effective window e is the union of the clipped expansions of the valid
\* windows in G, and that union is one interval.
MergedExpansionOf(e, G) ==
  LET x(i) == Expand(validWindows[i], winOpts)
  IN  /\ G # {}
      /\ \E i \in G : x(i).startTs = e.startTs
      /\ \E i \in G : x(i).endTs = e.endTs
      /\ \A i \in G : e.startTs <= x(i).startTs /\ x(i).endTs <= e.endTs
      /\ \A t \in Times : (e.startTs < t /\ t <= e.endTs) =>
            \E i \in G : x(i).startTs <= t - MsPerSec /\ x(i).endTs >= t

C16_WitnessDisjoint ==
  /\ winPc = "built"
  /\ Len(validWindows) = 2
  /\ Len(effectiveWindows) = 2
  /\ winOpts.preBufferSec = 1

(* ------------------------------- C17 ----------------------------------- *)
\* Number of high-latency samples in the bursts before burst k.
RECURSIVE CountBefore(_, _)
CountBefore(bursts, k) ==
  IF k <= 1 THEN 0 ELSE CountBefore(bursts, k - 1) + bursts[k - 1].count

\* C17: after the analysis the bursts partition the high-latency samples
\* (taken in time order): burst k is the run of `count` consecutive samples
\* that follows the runs of the bursts before it, all runs together are
\* all the samples, two consecutive samples of a run are at most 1200 ms
\* apart, every sample lies in the time span of exactly one burst, and
\* each burst ends before the next one starts.
C17_BurstsPartition ==
  pingPc = "analysed" =>
    LET high == pingResult.highLatencyEvents
        bursts == pingResult.highLatencyBursts
    IN  /\ CountBefore(bursts, Len(bursts) + 1) = Len(high)
        /\ \A k \in 1..Len(bursts) :
              LET first == CountBefore(bursts, k) + 1
                  last == CountBefore(bursts, k) + bursts[k].count
              IN  /\ bursts[k].count >= 1
                  /\ last <= Len(high)
                  /\ bursts[k].startTs = high[first].ts
                  /\ bursts[k].startSeq = high[first].seq
                  /\ bursts[k].endTs = high[last].ts
                  /\ bursts[k].endSeq = high[last].seq
                  /\ \A i \in first..(last - 1) :
                        high[i + 1].ts - high[i].ts <= maxGapMs
        /\ \A i \in 1..Len(high) :
              Cardinality({k \in 1..Len(bursts) :
                             /\ bursts[k].startTs <= high[i].ts
                             /\ high[i].ts <= bursts[k].endTs}) = 1
        /\ \A k \in 1..(Len(bursts) - 1) :
              bursts[k].endTs < bursts[k + 1].startTs

\* Two high-latency samples more than 1200 ms apart ended up in two
\* bursts, the later one having been parsed first.
C17_Witness ==
  /\ pingPc = "analysed"
  /\ Len(pingResult.highLatencyBursts) = 2
  /\ pingResult.highLatencyBursts[1].startSeq
       > pingResult.highLatencyBursts[2].startSeq

\* Two high-latency samples exactly 1200 ms apart share one burst.
C17_WitnessShared ==
  /\ pingPc = "analysed"
  /\ Len(pingResult.highLatencyBursts) = 1
  /\ pingResult.highLatencyBursts[1].count = 2
  /\ pingResult.highLatencyBursts[1].endTs
       - pingResult.highLatencyBursts[1].startTs = maxGapMs

(* ------------------------------- C18 ----------------------------------- *)
\* C18: after the analysis, for two consecutive samples A, B among the
\* successful samples with a latency (in time order), the jitter list holds
\* an event for B exactly when |B.latencyMs - A.latencyMs| >= 8; the event
\* carries both latencies, and the list holds nothing else.
C18_JitterIffDelta ==
  pingPc = "analysed" =>
    LET succ == SuccessSamples(samples)
        jit == pingResult.jitterEvents
    IN  /\ \A i \in 2..Len(succ) :
              (\E j \in 1..Len(jit) :
                  /\ jit[j].seq = succ[i].seq
                  /\ jit[j].ts = succ[i].ts
                  /\ jit[j].latencyMs = succ[i].latencyMs
                  /\ jit[j].prevLatencyMs = succ[i - 1].latencyMs)
                <=> Abs(succ[i].latencyMs - succ[i - 1].latencyMs) >= JitterDeltaMs
        /\ \A j \in 1..Len(jit) :
              \E i \in 2..Len(succ) : jit[j].seq = succ[i].seq
        /\ \A j \in 1..(Len(jit) - 1) : jit[j].ts <= jit[j + 1].ts

\* A pair exactly 8 ms apart produced an event, a pair less than 8 ms apart
\* produced none, and a lost reply lay among the samples.
C18_Witness ==
  /\ pingPc = "analysed"
  /\ \E j \in 1..Len(pingResult.jitterEvents) :
       pingResult.jitterEvents[j].deltaMs = JitterDeltaMs
  /\ \E i \in 2..Len(SuccessSamples(samples)) :
       SuccessSamples(samples)[i].latencyMs
         = SuccessSamples(samples)[i - 1].latencyMs
  /\ \E i \in 1..Len(samples) : ~samples[i].success

(* ------------------------------- C19 ----------------------------------- *)
\* 0.5 overlap + 0.3 leadLag + 0.2 intensity, in tenths of the score unit.
WeightedTenths(row) ==
  5 * row.overlap + 3 * row.leadLag + 2 * row.intensity

\* C19: every cause has one row in the ranking; its raw score is the
\* weighted sum 0.5 overlap + 0.3 leadLag + 0.2 intensity clamped to [0, 1];
\* the emitted score is the raw score outside degraded mode and exactly
\* 0.7 times the raw score in degraded mode.
C19_ScoreFormula ==
  scorePc = "ranked" =>
    /\ Len(ranking) = Len(Causes)
    /\ \A c \in CauseNames : \E k \in 1..Len(ranking) : ranking[k].cause = c
    /\ \A k \in 1..Len(ranking) :
         LET row == ranking[k]
             raw10 == IF WeightedTenths(row) < 0 THEN 0
                      ELSE IF WeightedTenths(row) > 10 * One THEN 10 * One
                      ELSE WeightedTenths(row)
         IN  /\ row.overlap = causeInputs[row.cause].overlap
             /\ row.leadLag = causeInputs[row.cause].leadLag
             /\ row.intensity = causeInputs[row.cause].intensity
             /\ 100 * row.score = (IF degraded THEN 7 ELSE 10) * raw10

\* A degraded run in which a cause with raw score 0.8 (level high) is
\* emitted with score 0.56.
C19_Witness ==
  /\ scorePc = "ranked"
  /\ degraded
  /\ \E k \in 1..Len(ranking) :
       /\ WeightedTenths(ranking[k]) = 8 * One
       /\ 100 * ranking[k].score = 56 * One

(* ------------------------------- C20 ----------------------------------- *)
\* The analysis JSON of a run without its generatedAtIso field.
WithoutGeneratedAt(json) == [json EXCEPT !.generatedAtIso = NoDate]

\* C20: whenever two runs of the report phase on one capture directory
\* take place, they write the same timeline CSV and the same analysis
\* JSON apart from generatedAtIso.
C20_ReportIdempotent ==
  \A i, j \in DOMAIN outputs :
    /\ outputs[i].timelineCsv = outputs[j].timelineCsv
    /\ WithoutGeneratedAt(outputs[i].analysisMeta) =
         WithoutGeneratedAt(outputs[j].analysisMeta)

(* ------------------------------- C21 ----------------------------------- *)
\* C21: the detector holds at most one current window.  A start marker
\* with no current window opens one at its time; with a current window it
\* closes that window and opens a new one if and only if it is more than
\* 10 s past the line that last updated the window, and otherwise it is
\* absorbed into the current window.
C21_StartMarkerStateMachine ==
  [][/\ Len(current') <= 1
     /\ (linesRead' = linesRead + 1 /\ HasStart(lastLine')) =>
          /\ Len(current') = 1
          /\ current'[1].endTs = lastLine'.ts
          /\ IF current = <<>>
               THEN /\ parsedWindows' = parsedWindows
                    /\ current'[1].startTs = lastLine'.ts
                    /\ current'[1].startMarkerCount = 1
             ELSE IF lastLine'.ts - lastLine.ts > MERGE_GAP_MS
               THEN /\ Len(parsedWindows') = Len(parsedWindows) + 1
                    /\ parsedWindows'[Len(parsedWindows')].startTs =
                         current[1].startTs
                    /\ current'[1].startTs = lastLine'.ts
                    /\ current'[1].startMarkerCount = 1
             ELSE /\ parsedWindows' = parsedWindows
                  /\ current'[1].startTs = current[1].startTs
                  /\ current'[1].startMarkerCount =
                       current[1].startMarkerCount + 1]_vars

\* A start marker has closed a window that had no end marker and opened
\* a new one.
C21_Witness ==
  /\ detPc = "reading"
  /\ HasStart(lastLine)
  /\ parsedWindows # <<>>
  /\ ~parsedWindows[Len(parsedWindows)].hasEndMarker
  /\ current # <<>>
  /\ current[1].startMarkerCount = 1
  /\ current[1].startTs - parsedWindows[Len(parsedWindows)].endTs > MERGE_GAP_MS

(* ------------------------------- C22 ----------------------------------- *)
\* C22: an activity line processed while a window is current leaves that
\* window's end not earlier than it was before and not earlier than the
\* line's time, for any order of the line times.
C22_ActivityExtendsEnd ==
  [][(/\ linesRead' = linesRead + 1
      /\ current # <<>>
      /\ lastLine'.isStreamActivity
      /\ ~HasStart(lastLine')) =>
        /\ current' # <<>>
        /\ current'[1].endTs >= current[1].endTs
        /\ current'[1].endTs >= lastLine'.ts]_vars

(* ------------------------------- C23 ----------------------------------- *)
\* C23: after a line with an end marker no window is current, and a line
\* that finds no current window and bears no start marker is attributed to
\* no window.
C23_EndMarkerCloses ==
  [][(linesRead' = linesRead + 1) =>
       /\ lastLine'.endMarker => current' = <<>>
       /\ (current # <<>> /\ lastLine'.endMarker) =>
            /\ Len(parsedWindows') = Len(parsedWindows) + 1
            /\ parsedWindows'[Len(parsedWindows')].hasEndMarker
       /\ (current = <<>> /\ ~HasStart(lastLine')) =>
            /\ current' = <<>>
            /\ parsedWindows' = parsedWindows]_vars

\* An end marker has closed a window and the activity line after it was
\* attributed to none.
C23_Witness ==
  /\ detPc = "reading"
  /\ current = <<>>
  /\ parsedWindows # <<>>
  /\ parsedWindows[Len(parsedWindows)].hasEndMarker
  /\ lastLine.isStreamActivity
  /\ ~HasStart(lastLine)
  /\ lastLine.ts > parsedWindows[Len(parsedWindows)].endTs

(* ------------------------------- C24 ----------------------------------- *)
\* C24: in the final window list the windows are sorted by start and each
\* window starts at least 10 s after the end of the one before it.
C24_WindowsSortedAndApart ==
  detPc # "reading" =>
    \A k \in 1..(Len(detection.windows) - 1) :
      /\ detection.windows[k].startTs <= detection.windows[k + 1].startTs
      /\ detection.windows[k + 1].startTs - detection.windows[k].endTs
           >= MERGE_GAP_MS

\* Three windows were closed, two of them were merged, two remain.
C24_Witness ==
  /\ detPc # "reading"
  /\ Len(parsedWindows) = 3
  /\ Len(detection.windows) = 2

(* ------------------------------- C25 ----------------------------------- *)
\* C25: in mode `all` every detected window is valid.
C25_AllModeAcceptsEveryWindow ==
  (detPc # "reading" /\ detection.mode = "all") =>
    /\ \A k \in 1..Len(detection.windows) : detection.windows[k].valid
    /\ detection.validWindows = detection.windows

(* ------------------------------- C26 ----------------------------------- *)
\* The timestamp lies within a valid window.
WithinValid(ms) ==
  \E k \in 1..Len(detection.validWindows) :
    /\ detection.validWindows[k].startTs <= ms
    /\ ms <= detection.validWindows[k].endTs

\* C26: the resolved phase is `stream` if and only if the timestamp lies
\* within a valid window; outside every valid window it is `preconnect`
\* when there is no valid window or the timestamp precedes the first, and
\* `post` when the timestamp follows the last.
C26_PhaseResolution ==
  resolved.phase # "" =>
    LET ws == detection.validWindows
        ms == resolved.ts
    IN /\ resolved.phase = "stream" <=> WithinValid(ms)
       /\ (ws = <<>> \/ (~WithinValid(ms) /\ ms < ws[1].startTs))
            => resolved.phase = "preconnect"
       /\ (ws # <<>> /\ ~WithinValid(ms) /\ ms > ws[Len(ws)].endTs)
            => resolved.phase = "post"

\* Two valid windows, and a timestamp after the second resolved to `post`.
C26_Witness ==
  /\ Len(detection.validWindows) = 2
  /\ resolved.phase = "post"
  /\ resolved.ts > detection.validWindows[2].endTs

\* A timestamp on the first instant of a valid window resolved to `stream`.
C26_WitnessStream ==
  /\ detection.validWindows # <<>>
  /\ resolved.phase = "stream"
  /\ resolved.ts = detection.validWindows[1].startTs

(* ------------------------------- C27 ----------------------------------- *)
\* The step reads an RCVD line.
RcvdStep ==
  /\ parsePc' = "reading"
  /\ lastPing'.line.kind = "RCVD"
  /\ Len(parsedSamples') = Len(parsedSamples) + 1

\* The unmatched SENT records with the seq of the line within the accept
\* window of the line.
SameSeqCandidates(line) ==
  {i \in 1..Len(hostSideSentRecords) :
     /\ hostSideSentRecords[i].seq = line.seq
     /\ ~hostSideSentRecords[i].matched
     /\ DeltaOf(i, line) >= 0
     /\ DeltaOf(i, line) <= hostSideMatchWindowMs}

\* C27: an RCVD is paired with an unmatched SENT of its seq that lies
\* within the accept window whenever there is one, and with a SENT of
\* another seq only when there is none.
C27_SameSeqPreferred ==
  [][RcvdStep =>
       LET line == lastPing'.line
           best == lastPing'.sent
       IN /\ SameSeqCandidates(line) # {} => best \in SameSeqCandidates(line)
          /\ (best # 0 /\ hostSideSentRecords[best].seq # line.seq)
               => SameSeqCandidates(line) = {}]_vars

(* ------------------------------- C28 ----------------------------------- *)
\* deltaMs of a SENT record and an RCVD line: the elapsed difference if
\* both elapsed values are known, the epoch difference otherwise.
ClaimedDeltaMs(rec, line) ==
  IF rec.elapsedMs # NoMs /\ line.elapsedMs # NoMs
    THEN line.elapsedMs - rec.elapsedMs
    ELSE line.epochMs - rec.epochMs

\* C28: a SENT is marked matched by an RCVD only when 0 <= deltaMs <=
\* max(1000, intervalSec * 1000 * 8) and deltaMs <= 60000.
C28_MatchedOnlyWithinWindow ==
  [][RcvdStep =>
       \A i \in 1..Len(hostSideSentRecords) :
         (hostSideSentRecords'[i].matched /\ ~hostSideSentRecords[i].matched)
           => LET deltaMs == ClaimedDeltaMs(hostSideSentRecords[i],
                                            lastPing'.line)
              IN /\ 0 <= deltaMs
                 /\ deltaMs <= Max(1000, pingIntervalMs * 8)
                 /\ deltaMs <= 60000]_vars

(* ------------------------------- C29 ----------------------------------- *)
\* The no_reply samples that bear a line.
NoReplySamplesOf(line) ==
  {k \in 1..Len(parsedSamples) :
     parsedSamples[k].status = "no_reply" /\ parsedSamples[k].line = line}

\* The SENT records of a line that were never matched.
UnmatchedSentOf(line) ==
  {i \in 1..Len(hostSideSentRecords) :
     ~hostSideSentRecords[i].matched /\ hostSideSentRecords[i].line = line}

\* C29: at the end of the input every SENT that was never matched has
\* exactly one sample with success = false and status no_reply, and a
\* matched SENT has none.
C29_UnmatchedSentIsNoReply ==
  parsePc = "done" =>
    /\ \A line \in HostSideLines :
         Cardinality(NoReplySamplesOf(line))
           = Cardinality(UnmatchedSentOf(line))
    /\ \A k \in 1..Len(parsedSamples) :
         parsedSamples[k].status = "no_reply" =>
           /\ ~parsedSamples[k].success
           /\ parsedSamples[k].latencyMs = NoLatency

\* The input has ended with one SENT matched and another one not.
C29_Witness ==
  /\ parsePc = "done"
  /\ \E i, j \in 1..Len(hostSideSentRecords) :
       /\ hostSideSentRecords[i].matched
       /\ ~hostSideSentRecords[j].matched
       /\ NoReplySamplesOf(hostSideSentRecords[j].line) # {}

(* ------------------------------- C30 ----------------------------------- *)
\* The step reads a device ping line.
DeviceStep ==
  /\ parsePc' = "reading"
  /\ lastPing'.line.kind = "DEVICE"
  /\ Len(parsedSamples') + skippedNoTsCount'
       = Len(parsedSamples) + skippedNoTsCount + 1

\* The step records one sample with this time and source and skips none.
Recorded(ts, tsSource) ==
  /\ Len(parsedSamples') = Len(parsedSamples) + 1
  /\ parsedSamples'[Len(parsedSamples')].ts = ts
  /\ parsedSamples'[Len(parsedSamples')].tsSource = tsSource
  /\ skippedNoTsCount' = skippedNoTsCount

\* C30: the timestamp of a device ping line is the prefix epoch_ms when
\* present (log_prefix_epoch), else the bracketed ping -D time (ping_D),
\* else captureStart + (seq - 1) * intervalSec when seq and capture start
\* are known (seq_estimated); with none of these no sample is recorded and
\* skippedNoTsCount grows by exactly one.
C30_TimestampSourcePriority ==
  [][DeviceStep =>
       LET line == lastPing'.line
           seq == IF line.seq # NoSeq THEN line.seq ELSE derivedSeq + 1
       IN IF line.epochMs # NoMs
            THEN Recorded(line.epochMs, "log_prefix_epoch")
          ELSE IF line.bracketMs # NoMs
            THEN Recorded(line.bracketMs, "ping_D")
          ELSE IF captureStartTs # NoMs
            THEN Recorded(captureStartTs + (seq - 1) * pingIntervalMs,
                          "seq_estimated")
          ELSE /\ parsedSamples' = parsedSamples
               /\ skippedNoTsCount' = skippedNoTsCount + 1]_vars

\* A line with both the prefix and the bracketed time was recorded under
\* the prefix epoch, and a line without either was skipped before it.
C30_Witness ==
  /\ parsePc = "reading"
  /\ lastPing.line.kind = "DEVICE"
  /\ lastPing.line.epochMs # NoMs
  /\ lastPing.line.bracketMs # NoMs
  /\ lastPing.recorded
  /\ parsedSamples[Len(parsedSamples)].tsSource = "log_prefix_epoch"
  /\ skippedNoTsCount = 1

\* A line with a derived seq was recorded at its estimated time.
C30_WitnessEstimated ==
  /\ parsePc = "reading"
  /\ lastPing.line.kind = "DEVICE"
  /\ lastPing.line.seq = NoSeq
  /\ lastPing.recorded
  /\ parsedSamples[Len(parsedSamples)].tsSource = "seq_estimated"
  /\ parsedSamples[Len(parsedSamples)].ts
       = captureStartTs + pingIntervalMs

\* `queue.pending + queue.size` restricted to the invocations of task t.
Outstanding(t) ==
  IF t \in runningTask \/ (\E i \in 1..Len(queued) : queued[i] = t)
    THEN 1 ELSE 0

\* C36: for each dumpsys task, in every state of the run, shutdown
\* included, runs = ok + skipped + timeout + error, plus one while an
\* invocation of that task is queued or executing.
C36_CountersBalance ==
  \A t \in TaskNames :
    stats[t].runs = stats[t].ok + stats[t].skipped + stats[t].timeout
                    + stats[t].error + Outstanding(t)

\* The drain wait expired with an invocation still outstanding, after a
\* tick of another task had been skipped.
C36_Witness ==
  /\ drainElapsed
  /\ \E t \in TaskNames :
       /\ Outstanding(t) = 1
       /\ stats[t].runs = 1
  /\ \E u \in TaskNames : stats[u].skipped = 1

\* C37: once closeStreams() has resolved, no snapshot frame is handed to
\* a dumpsys log stream any more, also when the drain wait was lost to
\* sleep(25000) with an invocation outstanding.
C37_NoFrameAfterClose == [][streamsClosed => log' = log]_vars

\* C39 as stated: every sample recorded with success = true carries a
\* finite, non-negative latencyMs, the replies for which no SENT could be
\* paired included.
C39_SuccessHasLatency ==
  \A k \in 1..Len(parsedSamples) :
    parsedSamples[k].success
      => /\ parsedSamples[k].latencyMs # NoLatency
         /\ parsedSamples[k].latencyMs >= 0

\* C39, amended: a sample recorded with success = true carries either a
\* finite, non-negative latencyMs or no latency at all, and only a
\* host-side RCVD line yields a successful sample without latency.
C39_SuccessLatencyOrNull ==
  \A k \in 1..Len(parsedSamples) :
    parsedSamples[k].success
      => \/ /\ parsedSamples[k].latencyMs = NoLatency
            /\ parsedSamples[k].line.kind = "RCVD"
         \/ parsedSamples[k].latencyMs >= 0

\* A reply read before any SENT line was recorded without latency, and a
\* later reply was paired and carries its latency.
C39_Witness ==
  /\ Len(parsedSamples) >= 2
  /\ \E k \in 1..Len(parsedSamples) :
       /\ parsedSamples[k].success
       /\ parsedSamples[k].latencyMs = NoLatency
  /\ \E k \in 1..Len(parsedSamples) :
       /\ parsedSamples[k].success
       /\ parsedSamples[k].latencyMs > 0

\* The SENT records that the step marks matched.
NewlyMatched ==
  {i \in 1..Len(hostSideSentRecords) :
     /\ ~hostSideSentRecords[i].matched
     /\ hostSideSentRecords'[i].matched}

\* C40: pairing is one-to-one for any order of SENT and RCVD lines and
\* any repetition of sequence numbers: an RCVD marks at most one SENT, the
\* one it is paired with, that SENT was unmatched until then, and a
\* matched SENT never becomes unmatched again.
C40_PairingOneToOne ==
  [][/\ \A i \in 1..Len(hostSideSentRecords) :
          hostSideSentRecords[i].matched
            => /\ i <= Len(hostSideSentRecords')
               /\ hostSideSentRecords'[i].matched
     /\ RcvdStep
          => NewlyMatched = IF lastPing'.sent = 0 THEN {}
                            ELSE {lastPing'.sent}
     /\ ~RcvdStep => NewlyMatched = {}]_vars

\* A second RCVD of a seq whose only SENT, still within the accept
\* window, is already paired: it is left without a SENT.
C40_Witness ==
  /\ parsePc = "reading"
  /\ lastPing.line.kind = "RCVD"
  /\ lastPing.sent = 0
  /\ \E i \in 1..Len(hostSideSentRecords) :
       /\ hostSideSentRecords[i].matched
       /\ hostSideSentRecords[i].seq = lastPing.line.seq
       /\ DeltaOf(i, lastPing.line) >= 0
       /\ DeltaOf(i, lastPing.line) <= hostSideMatchWindowMs

\* The valid window w lies within one effective window.
Contained(lo, hi, ws) ==
  \E k \in 1..Len(ws) : ws[k].startTs <= lo /\ hi <= ws[k].endTs

\* C38 as stated: every valid window is contained in some effective
\* window, and a timestamp whose phase is stream is in session, whatever
\* the buffers and the capture range.
C38_StreamIsInSession ==
  /\ detPc = "effective"
       => \A k \in 1..Len(detection.validWindows) :
            Contained(detection.validWindows[k].startTs,
                      detection.validWindows[k].endTs,
                      detection.effectiveWindows)
  /\ resolved.phase = "stream" => resolved.inSession

\* C38, amended: the part of every valid window that lies within the
\* capture range is contained in some effective window, and a timestamp
\* within the capture range whose phase is stream is in session, whatever
\* the buffers and the capture range.
C38_StreamInRangeIsInSession ==
  /\ detPc = "effective"
       => \A k \in 1..Len(detection.validWindows) :
            LET lo == Max(detection.validWindows[k].startTs, winOpts.minTs)
                hi == -Max(-detection.validWindows[k].endTs, -winOpts.maxTs)
            IN lo <= hi => Contained(lo, hi, detection.effectiveWindows)
  /\ (/\ resolved.phase = "stream"
      /\ winOpts.minTs <= resolved.ts
      /\ resolved.ts <= winOpts.maxTs)
       => resolved.inSession

\* Two valid windows whose buffered ranges overlap were merged into one
\* effective window, the capture range cuts the first of them, and a
\* timestamp of the second resolved to stream, in session.
C38_Witness ==
  /\ detPc = "effective"
  /\ Len(detection.validWindows) = 2
  /\ Len(detection.effectiveWindows) = 1
  /\ detection.validWindows[1].startTs < winOpts.minTs
  /\ winOpts.minTs < detection.validWindows[1].endTs
  /\ resolved.phase = "stream"
  /\ resolved.ts >= detection.validWindows[2].startTs
  /\ resolved.inSession

\* C31: every cause of the emitted ranking carries at least 3 and at most
\* 5 evidence rows, whatever the input of the ranking.
C31_EvidenceRowCount ==
  \A k \in 1..Len(ranking) :
    /\ Len(ranking[k].evidence) >= 3
    /\ Len(ranking[k].evidence) <= 5

\* The event the alarm scan emits for one snapshot alone.
IsAbsoluteWakeupSoon(snap, e) ==
  /\ scanService = "alarm"
  /\ e.type = "ALARM_WAKEUP_SOON"
  /\ snap.state.nextWakeupMs # <<>>
  /\ snap.state.nextWakeupMs[1] <= 5000

\* C32 as stated: every event comes from an OK snapshot compared with the
\* OK snapshot before it and bears the host_ts of the later one; a
\* snapshot that is not OK yields no event and is never the previous
\* state.
C32_EventsFromConsecutiveOk ==
  /\ scanPrev # <<>> => scanPrev[1].status = "OK"
  /\ lastScan.events # <<>>
       => /\ lastScan.snap[1].status = "OK"
          /\ lastScan.prev # <<>>
          /\ lastScan.prev = lastScan.ok
          /\ \A k \in 1..Len(lastScan.events) :
               lastScan.events[k].ts = lastScan.snap[1].hostTs

\* C32, amended: every event comes from an OK snapshot and bears its
\* host_ts; apart from the ALARM_WAKEUP_SOON of a next wakeup within 5 s,
\* which one snapshot yields alone, it comes from comparing that snapshot
\* with the nearest earlier OK snapshot that has a readable host_ts and a
\* recognised state; a snapshot that is not OK yields no event and is
\* never the previous state.
C32_EventsFromUsableOk ==
  /\ scanPrev # <<>> => scanPrev[1].status = "OK"
  /\ lastScan.events # <<>>
       => /\ lastScan.snap[1].status = "OK"
          /\ \A k \in 1..Len(lastScan.events) :
               /\ lastScan.events[k].ts = lastScan.snap[1].hostTs
               /\ lastScan.events[k].ts # NoMs
               /\ \/ /\ lastScan.prev # <<>>
                     /\ lastScan.prev = lastScan.usable
                  \/ /\ k = 1
                     /\ IsAbsoluteWakeupSoon(lastScan.snap[1],
                                             lastScan.events[k])

\* An OK snapshot was compared with the OK snapshot two places before it,
\* the one in between being passed over, and an event was emitted.
C32_Witness ==
  /\ scanIdx = 3
  /\ lastScan.events # <<>>
  /\ lastScan.prev # <<>>
  /\ lastScan.prev[1].idx = 1
  /\ lastScan.snap[1].idx = 3
  /\ \E k \in 1..Len(lastScan.events) :
       ~IsAbsoluteWakeupSoon(lastScan.snap[1], lastScan.events[k])

\* C33 as stated: a poll-noise line is dropped unless the policy is
\* conservative and the phase of the line is stream.
C33_PollNoiseDropped ==
  (/\ lastFocus.line.pollNoise
   /\ ~(noisePolicy = "conservative" /\ lastFocus.phase = "stream"))
    => lastFocus.outcome # "kept"

\* C33, amended: a poll-noise line is dropped as preconnect_poll_noise
\* exactly when the policy is aggressive, or the policy is balanced and
\* the phase of the line is not stream; under the conservative policy,
\* and under the balanced one in phase stream, it goes on to the other
\* checks of the extractor.
C33_PollNoiseByPolicy ==
  lastFocus.outcome # ""
    => (lastFocus.outcome = "preconnect_poll_noise"
          <=> /\ lastFocus.line.pollNoise
              /\ \/ noisePolicy = "aggressive"
                 \/ /\ noisePolicy = "balanced"
                    /\ lastFocus.phase # "stream")

\* Under the conservative policy a poll-noise line outside the stream
\* phase that carries a metric was kept.
C33_Witness ==
  /\ noisePolicy = "conservative"
  /\ lastFocus.line.pollNoise
  /\ lastFocus.phase = "preconnect"
  /\ lastFocus.outcome = "kept"
  /\ detection.validWindows # <<>>

\* The non-empty lines among the first n pieces.
RECURSIVE NonEmptyLines(_, _)
NonEmptyLines(lines, n) ==
  IF n = 0 THEN <<>>
  ELSE NonEmptyLines(lines, n - 1)
         \o (IF lines[n] = <<>> THEN <<>> ELSE <<lines[n]>>)

WrittenLines == [k \in 1..Len(teeWritten) |-> teeWritten[k].line]

\* C34: whatever the chunks, the lines written are the non-empty lines of
\* the concatenated output, in order: the complete ones while the stream
\* is open, and the trailing partial line too once it has ended.
C34_TeeRespectsLines ==
  LET lines == SplitLines(teeOutput)
  IN  /\ teePc = "open"
        => /\ WrittenLines = NonEmptyLines(lines, Len(lines) - 1)
           /\ stdoutBuffer = lines[Len(lines)]
      /\ teePc = "ended"
        => /\ WrittenLines = NonEmptyLines(lines, Len(lines))
           /\ stdoutBuffer = <<>>

\* A line end split between two chunks ("a\r" then "\n") gave one line,
\* and the partial line after it was written at the end of the stream.
C34_Witness ==
  /\ teePc = "ended"
  /\ teeOutput = <<"a", CR, LF, "a">>
  /\ WrittenLines = <<<<"a">>, <<"a">>>>

\* C35: the manifest is rewritten atomically: neither a reader nor an
\* interruption at any point finds capture_meta.json partially written.
C35_ManifestNeverPartial ==
  /\ diskExists => Parses(diskText)
  /\ seenText # <<>> => Parses(seenText[1])

====
